---- MODULE Spec2Model ----
(***************************************************************************)
(* Model of the firmware parser (src/firmware-parser.js, class             *)
(* FirmwareParser): the layout catalog kept by a parser instance, the      *)
(* layout inference functions, the geometry synthesis functions, the       *)
(* structured-config extractor and the format dispatcher parseFirmware.    *)
(*                                                                         *)
(* JavaScript values that come out of JSON.parse are modelled as tagged    *)
(* records [t |-> tag, ...]; strings are TLA+ strings, on which            *)
(* toLowerCase() and includes() are computed character by character.       *)
(* Unit coordinates of a coordinate layout (keyDef.x, keyDef.y) are        *)
(* rationals in the source; the model stores them in HALF units (the       *)
(* integer 3 stands for 1.5), so that x * 50 is (x * 50) \div 2 exactly.   *)
(***************************************************************************)
EXTENDS Integers, Sequences, FiniteSets, TLC

VARIABLES
    parser,   \* the FirmwareParser instance: its keyboardLayouts catalog
    call,     \* SpecFn: the function last applied and its arguments
    ret,      \* SpecFn: the value that call returned
    inv,      \* Spec: the parseFirmware invocation in progress or just completed
    last,     \* Spec: the outcome of the invocation completed before inv
    app,      \* SpecApp: the VirtualKeyboardTester and its KeyboardRenderer
    slots,    \* SpecPar: the handleFiles invocations since the application was idle
    env       \* SpecTest, SpecHighlight: the press timers pending in the event loop, the hoveredKey
              \* of the canvas listeners, and what was clicked since the last reset

vars == <<parser, call, ret, inv, last, app, slots, env>>

(***************************************************************************)
(* Bounds of the model.                                                    *)
(***************************************************************************)
MaxKeyCount == 90     \* key counts 0..MaxKeyCount are given to the classifiers
MaxLayoutLen == 3     \* generated coordinate layouts have up to this many keys
MaxX == 5             \* generated x coordinates: 0..MaxX half units

(***************************************************************************)
(* JavaScript values.                                                      *)
(***************************************************************************)
Undefined == [t |-> "undefined"]
Null == [t |-> "null"]
Bool(b) == [t |-> "bool", v |-> b]
Num(n) == [t |-> "num", v |-> n]
Str(s) == [t |-> "str", v |-> s]
Arr(s) == [t |-> "arr", v |-> s]
\* an object literal: its own keys in insertion order, and their values
Obj(pairs) ==
    [t |-> "obj",
     k |-> [i \in 1..Len(pairs) |-> pairs[i][1]],
     v |-> [f \in {pairs[i][1] : i \in 1..Len(pairs)} |->
              pairs[CHOOSE i \in 1..Len(pairs) : pairs[i][1] = f][2]]]

\* a method inherited from a prototype
Function == [t |-> "function"]

\* o.f : undefined when o has no property f; of the properties the parser
\* reads, a string inherits split from String.prototype
Get(o, f) ==
    IF o.t = "obj" /\ f \in DOMAIN o.v THEN o.v[f]
    ELSE IF o.t = "str" /\ f = "split" THEN Function
    ELSE Undefined

\* ToBoolean
Truthy(x) ==
    CASE x.t = "undefined" -> FALSE
      [] x.t = "null" -> FALSE
      [] x.t = "bool" -> x.v
      [] x.t = "num" -> x.v # 0
      [] x.t = "str" -> x.v # ""
      [] OTHER -> TRUE

\* a || b
Or(a, b) == IF Truthy(a) THEN a ELSE b

UpperCaseLetters == "ABCDEFGHIJKLMNOPQRSTUVWXYZ"
LowerCaseLetters == "abcdefghijklmnopqrstuvwxyz"

LowerChar(c) ==
    IF \E i \in 1..Len(UpperCaseLetters) : SubSeq(UpperCaseLetters, i, i) = c
    THEN LET i == CHOOSE j \in 1..Len(UpperCaseLetters) :
                      SubSeq(UpperCaseLetters, j, j) = c
         IN SubSeq(LowerCaseLetters, i, i)
    ELSE c

\* String.prototype.toLowerCase
RECURSIVE toLowerCase(_)
toLowerCase(s) ==
    IF Len(s) = 0 THEN ""
    ELSE LowerChar(SubSeq(s, 1, 1)) \o toLowerCase(SubSeq(s, 2, Len(s)))

\* String.prototype.includes
includes(s, frag) ==
    \E i \in 0..(Len(s) - Len(frag)) : SubSeq(s, i + 1, i + Len(frag)) = frag

(***************************************************************************)
(* constructor: the layout catalog of a parser instance.                   *)
(***************************************************************************)
LayoutKeys == <<"tkl", "full", "60", "65", "75", "ortho", "split">>

KeyboardLayouts ==
    ("tkl"   :> [rows |-> 6, cols |-> 17, name |-> "Tenkeyless"]) @@
    ("full"  :> [rows |-> 6, cols |-> 21, name |-> "Full Size"]) @@
    ("60"    :> [rows |-> 5, cols |-> 14, name |-> "60%"]) @@
    ("65"    :> [rows |-> 5, cols |-> 16, name |-> "65%"]) @@
    ("75"    :> [rows |-> 6, cols |-> 16, name |-> "75%"]) @@
    ("ortho" :> [rows |-> 4, cols |-> 12, name |-> "Ortholinear"]) @@
    ("split" :> [rows |-> 4, cols |-> 6, name |-> "Split"])

NewParser == [keyboardLayouts |-> KeyboardLayouts]

(***************************************************************************)
(* Layout inference by key count, and flat-grid synthesis.                 *)
(***************************************************************************)
KeyPitch == 50       \* pixels per unit
KeyOrigin == 10      \* pixel offset of unit 0
KeyBox == 45         \* pixel size of a 1u key
SplitGap == 100      \* pixel gap between the halves of the canonical split
LayoutSplitGap == 50 \* pixel offset of the right half of a coordinate layout
GapThreshold == 3    \* 1.5 units, in half units

\* detectLayoutByKeyCount with the 60% bucket closed one key early
detectLayoutByKeyCount_Below61(keyCount) ==
    IF keyCount <= 48
    THEN IF keyCount >= 36 /\ keyCount <= 42
         THEN parser.keyboardLayouts["split"]
         ELSE parser.keyboardLayouts["ortho"]
    ELSE IF keyCount < 61 THEN parser.keyboardLayouts["60"]
    ELSE IF keyCount <= 68 THEN parser.keyboardLayouts["65"]
    ELSE IF keyCount <= 84 THEN parser.keyboardLayouts["75"]
    ELSE IF keyCount <= 87 THEN parser.keyboardLayouts["tkl"]
    ELSE parser.keyboardLayouts["full"]

\* detectLayoutByKeyCount(keyCount)
detectLayoutByKeyCount(keyCount) ==
    IF keyCount <= 48
    THEN IF keyCount >= 36 /\ keyCount <= 42
         THEN parser.keyboardLayouts["split"]
         ELSE parser.keyboardLayouts["ortho"]
    ELSE IF keyCount <= 61 THEN parser.keyboardLayouts["60"]
    ELSE IF keyCount <= 68 THEN parser.keyboardLayouts["65"]
    ELSE IF keyCount <= 84 THEN parser.keyboardLayouts["75"]
    ELSE IF keyCount <= 87 THEN parser.keyboardLayouts["tkl"]
    ELSE parser.keyboardLayouts["full"]

\* generateKeyPositions filling the grid column by column
generateKeyPositions_ColumnMajor(keyCount) ==
    LET layout == detectLayoutByKeyCount(keyCount)
    IN [j \in 1..keyCount |->
          LET i == j - 1
              row == i % layout.rows
              col == i \div layout.rows
          IN [id |-> i, row |-> row, col |-> col,
              x |-> col * KeyPitch + KeyOrigin,
              y |-> row * KeyPitch + KeyOrigin,
              width |-> KeyBox, height |-> KeyBox, keycode |-> "KC_NO"]]

\* generateKeyPositions(keyCount); keys[i + 1] is the key pushed at index i
generateKeyPositions(keyCount) ==
    LET layout == detectLayoutByKeyCount(keyCount)
    IN [j \in 1..keyCount |->
          LET i == j - 1
              row == i \div layout.cols
              col == i % layout.cols
          IN [id |-> i, row |-> row, col |-> col,
              x |-> col * KeyPitch + KeyOrigin,
              y |-> row * KeyPitch + KeyOrigin,
              width |-> KeyBox, height |-> KeyBox, keycode |-> "KC_NO"]]

(***************************************************************************)
(* Coordinate-based synthesis.  A keyDef is a record with x and y in half  *)
(* units and, optionally, matrix (<<row, col>>), w, h (whole multipliers)  *)
(* and keycode.                                                            *)
(***************************************************************************)
RECURSIVE InsertSorted(_, _)
InsertSorted(x, s) ==
    IF s = <<>> THEN <<x>>
    ELSE IF x < Head(s) THEN <<x>> \o s
    ELSE <<Head(s)>> \o InsertSorted(x, Tail(s))

\* Array.prototype.sort((a, b) => a - b)
RECURSIVE SortAscending(_)
SortAscending(s) ==
    IF s = <<>> THEN <<>>
    ELSE InsertSorted(s[Len(s)], SortAscending(SubSeq(s, 1, Len(s) - 1)))

\* the gap loop remembering the lower side of the gap, xCoords[i-1]
RECURSIVE LargestGap_LowerSide(_, _, _)
LargestGap_LowerSide(xCoords, i, acc) ==
    IF i >= Len(xCoords) THEN acc
    ELSE LET gap == xCoords[i + 1] - xCoords[i]
         IN LargestGap_LowerSide(xCoords, i + 1,
                IF gap > acc.maxGap
                THEN [maxGap |-> gap, gapPosition |-> xCoords[i]]
                ELSE acc)

\* the loop of lines 575-581, from 0-based index i on; acc = [maxGap, gapPosition]
RECURSIVE LargestGap(_, _, _)
LargestGap(xCoords, i, acc) ==
    IF i >= Len(xCoords) THEN acc
    ELSE LET gap == xCoords[i + 1] - xCoords[i]
         IN LargestGap(xCoords, i + 1,
                IF gap > acc.maxGap
                THEN [maxGap |-> gap, gapPosition |-> xCoords[i + 1]]
                ELSE acc)

\* rightHalfStartX taken at the last of the largest gaps
RightHalfStartX_LastGap(layoutArray, isSplit) ==
    IF isSplit /\ Len(layoutArray) > 0
    THEN LET xCoords == SortAscending([i \in 1..Len(layoutArray) |-> layoutArray[i].x])
             gap(i) == xCoords[i + 1] - xCoords[i]
             widest == {i \in 1..(Len(xCoords) - 1) :
                          \A j \in 1..(Len(xCoords) - 1) : gap(j) <= gap(i)}
             lastGap == CHOOSE i \in widest : \A j \in widest : j <= i
         IN IF widest # {} /\ gap(lastGap) > GapThreshold THEN xCoords[lastGap + 1] ELSE 0
    ELSE 0

\* the value of rightHalfStartX after lines 566-587
RightHalfStartX(layoutArray, isSplit) ==
    IF isSplit /\ Len(layoutArray) > 0
    THEN LET xCoords == SortAscending([i \in 1..Len(layoutArray) |-> layoutArray[i].x])
             found == LargestGap(xCoords, 1, [maxGap |-> 0, gapPosition |-> 0])
         IN IF found.maxGap > GapThreshold THEN found.gapPosition ELSE 0
    ELSE 0

\* unit * 50 + 10, for a coordinate in half units
Pixel(halfUnits) == (halfUnits * KeyPitch) \div 2 + KeyOrigin

\* generateKeysFromLayout(layoutArray, isSplit)
generateKeysFromLayout(layoutArray, isSplit) ==
    LET splitGap == IF isSplit THEN LayoutSplitGap ELSE 0
        rightHalfStartX == RightHalfStartX(layoutArray, isSplit)
    IN [j \in 1..Len(layoutArray) |->
          LET keyDef == layoutArray[j]
              half == IF isSplit /\ keyDef.x >= rightHalfStartX
                      THEN "right" ELSE "left"
              has(f) == f \in DOMAIN keyDef
          IN [id |-> j - 1,
              row |-> IF has("matrix") THEN keyDef.matrix[1] ELSE keyDef.y \div 2,
              col |-> IF has("matrix") THEN keyDef.matrix[2] ELSE keyDef.x \div 2,
              x |-> Pixel(keyDef.x) + (IF half = "right" /\ isSplit THEN splitGap ELSE 0),
              y |-> Pixel(keyDef.y),
              width |-> (IF has("w") /\ keyDef.w # 0 THEN keyDef.w ELSE 1) * KeyBox,
              height |-> (IF has("h") /\ keyDef.h # 0 THEN keyDef.h ELSE 1) * KeyBox,
              keycode |-> IF has("keycode") /\ keyDef.keycode # ""
                          THEN keyDef.keycode ELSE "KC_NO",
              half |-> half]]

(***************************************************************************)
(* Split-grid synthesis.                                                   *)
(***************************************************************************)
ThumbOrigin == 25    \* pixel offset of the thumb row: "slightly lower"

\* the sub-layouts of config.layouts in for-in order, as <<name, value>>
SubLayouts(config) ==
    LET layouts == Get(config, "layouts")
    IN IF Truthy(layouts) /\ layouts.t = "obj"
       THEN [i \in 1..Len(layouts.k) |-> <<layouts.k[i], layouts.v[layouts.k[i]]>>]
       ELSE <<>>

\* layoutConfig.layout && Array.isArray(layoutConfig.layout)
HasLayoutArray(layoutConfig) ==
    Truthy(Get(layoutConfig, "layout")) /\ Get(layoutConfig, "layout").t = "arr"

\* the coordinate array of the first sub-layout that has one (lines 322-328, 476-481)
FirstLayoutArray(config) ==
    LET subs == SubLayouts(config)
        found == {i \in 1..Len(subs) : HasLayoutArray(subs[i][2])}
    IN IF found = {} THEN Undefined
       ELSE LET first == CHOOSE i \in found : \A j \in found : i <= j
            IN Get(subs[first][2], "layout")

\* the canonical 3x6+3 split of lines 484-557
CanonicalSplitKeys ==
    LET leftCols == 6
        rightCols == 6
        mainRows == 3
        thumbKeys == 3
        splitGap == SplitGap
        leftMain ==
            [j \in 1..(mainRows * leftCols) |->
               LET row == (j - 1) \div leftCols
                   col == (j - 1) % leftCols
               IN [id |-> j - 1, row |-> row, col |-> col,
                   x |-> col * KeyPitch + KeyOrigin,
                   y |-> row * KeyPitch + KeyOrigin,
                   width |-> KeyBox, height |-> KeyBox, keycode |-> "KC_NO",
                   half |-> "left"]]
        leftThumb ==
            [j \in 1..thumbKeys |->
               LET i == j - 1
               IN [id |-> mainRows * leftCols + i, row |-> mainRows, col |-> 3 + i,
                   x |-> (3 + i) * KeyPitch + KeyOrigin,
                   y |-> mainRows * KeyPitch + ThumbOrigin,
                   width |-> KeyBox, height |-> KeyBox, keycode |-> "KC_NO",
                   half |-> "left"]]
        rightMain ==
            [j \in 1..(mainRows * rightCols) |->
               LET row == (j - 1) \div rightCols
                   col == (j - 1) % rightCols
               IN [id |-> mainRows * leftCols + thumbKeys + (j - 1),
                   row |-> row, col |-> col,
                   x |-> col * KeyPitch + KeyOrigin + (leftCols * KeyPitch) + splitGap,
                   y |-> row * KeyPitch + KeyOrigin,
                   width |-> KeyBox, height |-> KeyBox, keycode |-> "KC_NO",
                   half |-> "right"]]
        rightThumb ==
            [j \in 1..thumbKeys |->
               LET i == j - 1
               IN [id |-> mainRows * leftCols + thumbKeys + mainRows * rightCols + i,
                   row |-> mainRows, col |-> i,
                   x |-> i * KeyPitch + KeyOrigin + (leftCols * KeyPitch) + splitGap,
                   y |-> mainRows * KeyPitch + ThumbOrigin,
                   width |-> KeyBox, height |-> KeyBox, keycode |-> "KC_NO",
                   half |-> "right"]]
    IN leftMain \o leftThumb \o rightMain \o rightThumb

\* generateSplitKeyPositions with the thumb keys on the row pitch
generateSplitKeyPositions_ThumbOnPitch(keyCount, config) ==
    IF FirstLayoutArray(config).t = "arr"
    THEN generateKeysFromLayout(FirstLayoutArray(config).v, TRUE)
    ELSE [j \in 1..Len(CanonicalSplitKeys) |->
            IF CanonicalSplitKeys[j].row = 3
            THEN [CanonicalSplitKeys[j] EXCEPT !.y = 3 * KeyPitch + KeyOrigin]
            ELSE CanonicalSplitKeys[j]]

\* generateSplitKeyPositions(keyCount, config = {})
generateSplitKeyPositions(keyCount, config) ==
    IF FirstLayoutArray(config).t = "arr"
    THEN generateKeysFromLayout(FirstLayoutArray(config).v, TRUE)
    ELSE CanonicalSplitKeys

(***************************************************************************)
(* Structured-config inference: firmware type, split signal, key source.   *)
(***************************************************************************)
\* detectFirmwareType without the keyboard field among the QMK marks
detectFirmwareType_NoKeyboardMark(config) ==
    IF Truthy(Get(config, "zmk")) \/ Truthy(Get(config, "behaviors"))
          \/ Truthy(Get(config, "keymap")) THEN "ZMK"
    ELSE IF Truthy(Get(config, "qmk")) \/ Truthy(Get(config, "layout_aliases"))
    THEN "QMK"
    ELSE "Generic"

\* detectFirmwareType(config)
detectFirmwareType(config) ==
    IF Truthy(Get(config, "zmk")) \/ Truthy(Get(config, "behaviors"))
          \/ Truthy(Get(config, "keymap")) THEN "ZMK"
    ELSE IF Truthy(Get(config, "qmk")) \/ Truthy(Get(config, "keyboard"))
          \/ Truthy(Get(config, "layout_aliases")) THEN "QMK"
    ELSE "Generic"

\* config.keyboard_name || config.keyboard || config.name || fallback
ConfigName(config, fallback) ==
    Or(Get(config, "keyboard_name"),
       Or(Get(config, "keyboard"), Or(Get(config, "name"), fallback)))

LayoutNameFragments == {"split", "corne", "crkbd", "kyria", "lily58", "iris"}
KeyboardNameFragments == {"split", "corne", "rattusboard", "crkbd"}

\* the explicit signal without the test split === true
SplitExplicit_EnabledOnly(config) ==
    Truthy(Get(config, "split")) /\ Truthy(Get(Get(config, "split"), "enabled"))

\* lines 271-272: split.enabled, split === true
SplitExplicit(config) ==
    \/ Truthy(Get(config, "split")) /\ Truthy(Get(Get(config, "split"), "enabled"))
    \/ Get(config, "split").t = "bool" /\ Get(config, "split").v

\* line 275: split.handedness, split.soft_serial_pin
SplitFeatures(config) ==
    /\ Truthy(Get(config, "split"))
    /\ \/ Truthy(Get(Get(config, "split"), "handedness"))
       \/ Truthy(Get(Get(config, "split"), "soft_serial_pin"))

\* lines 278-290: the layout name
SplitLayoutName(config) ==
    LET layout == Get(config, "layout")
    IN /\ Truthy(layout)
       /\ layout.t = "str"
       /\ \E frag \in LayoutNameFragments : includes(toLowerCase(layout.v), frag)

\* lines 293-299: a sub-layout name containing "split"
SplitSubLayoutName(config) ==
    \E i \in 1..Len(SubLayouts(config)) :
        includes(toLowerCase(SubLayouts(config)[i][1]), "split")

\* lines 302-308: the keyboard name
SplitKeyboardName(config) ==
    LET keyboardName == toLowerCase(ConfigName(config, Str("")).v)
    IN \E frag \in KeyboardNameFragments : includes(keyboardName, frag)

\* detectSplitKeyboard(config)
detectSplitKeyboard(config) ==
    IF SplitExplicit(config) THEN TRUE
    ELSE IF SplitFeatures(config) THEN TRUE
    ELSE IF SplitLayoutName(config) THEN TRUE
    ELSE IF SplitSubLayoutName(config) THEN TRUE
    ELSE IF SplitKeyboardName(config) THEN TRUE
    ELSE FALSE

\* config.matrix.rows * config.matrix.cols
MatrixTotal(config) ==
    Get(Get(config, "matrix"), "rows").v * Get(Get(config, "matrix"), "cols").v

\* extractKeys with the matrix looked at before the sub-layout arrays
extractKeys_MatrixFirst(config) ==
    IF Truthy(Get(config, "keys")) THEN Get(config, "keys").v
    ELSE IF Truthy(Get(config, "layout")) /\ Truthy(Get(Get(config, "layout"), "keys"))
    THEN Get(Get(config, "layout"), "keys").v
    ELSE IF Truthy(Get(config, "matrix"))
    THEN IF detectSplitKeyboard(config)
         THEN generateSplitKeyPositions(MatrixTotal(config), config)
         ELSE generateKeyPositions(MatrixTotal(config))
    ELSE IF FirstLayoutArray(config).t = "arr"
    THEN generateKeysFromLayout(FirstLayoutArray(config).v, detectSplitKeyboard(config))
    ELSE IF detectSplitKeyboard(config)
    THEN generateSplitKeyPositions(42, config)
    ELSE generateKeyPositions(61)

\* extractKeys(config)
extractKeys(config) ==
    IF Truthy(Get(config, "keys")) THEN Get(config, "keys").v
    ELSE IF Truthy(Get(config, "layout")) /\ Truthy(Get(Get(config, "layout"), "keys"))
    THEN Get(Get(config, "layout"), "keys").v
    ELSE IF FirstLayoutArray(config).t = "arr"
    THEN generateKeysFromLayout(FirstLayoutArray(config).v, detectSplitKeyboard(config))
    ELSE IF Truthy(Get(config, "matrix"))
    THEN IF detectSplitKeyboard(config)
         THEN generateSplitKeyPositions(MatrixTotal(config), config)
         ELSE generateKeyPositions(MatrixTotal(config))
    ELSE IF detectSplitKeyboard(config)
    THEN generateSplitKeyPositions(42, config)
    ELSE generateKeyPositions(61)

\* the first catalog entry, in catalog order, that layoutName names (lines 645-649)
CatalogMatch(layoutName) ==
    LET hits == {i \in 1..Len(LayoutKeys) :
                    \/ includes(layoutName, LayoutKeys[i])
                    \/ includes(layoutName,
                                toLowerCase(parser.keyboardLayouts[LayoutKeys[i]].name))}
    IN IF hits = {} THEN Null
       ELSE parser.keyboardLayouts[LayoutKeys[CHOOSE i \in hits : \A j \in hits : i <= j]]

\* detectLayoutFromConfig(config)
detectLayoutFromConfig(config) ==
    LET layout == Get(config, "layout")
        layoutName == IF layout.t = "str" THEN toLowerCase(layout.v) ELSE ""
    IN IF detectSplitKeyboard(config) THEN parser.keyboardLayouts["split"]
       ELSE IF Truthy(layout) /\ CatalogMatch(layoutName) # Null
       THEN CatalogMatch(layoutName)
       ELSE IF SplitSubLayoutName(config) THEN parser.keyboardLayouts["split"]
       ELSE Null

(***************************************************************************)
(* Peripherals and layers of a structured config.  The entries of an       *)
(* array are records holding the fields the entry has; a lone object       *)
(* (config.oled) is Rec(r).                                                *)
(***************************************************************************)
Rec(r) == [t |-> "rec", v |-> r]

\* entry.f || fallback, for a string field and for a number field of an entry
StrFieldOr(entry, f, fallback) ==
    IF f \in DOMAIN entry /\ entry[f] # "" THEN entry[f] ELSE fallback
NumFieldOr(entry, f, fallback) ==
    IF f \in DOMAIN entry /\ entry[f] # 0 THEN entry[f] ELSE fallback

\* extractEncoders(config)
extractEncoders(config) ==
    IF Truthy(Get(config, "encoders"))
    THEN LET encoders == Get(config, "encoders").v
         IN [j \in 1..Len(encoders) |->
               [id |-> j - 1,
                name |-> StrFieldOr(encoders[j], "name", "Encoder " \o ToString(j - 1 + 1)),
                pins |-> IF "pins" \in DOMAIN encoders[j] THEN encoders[j].pins ELSE <<>>,
                steps |-> NumFieldOr(encoders[j], "steps", 20)]]
    ELSE <<>>

\* extractTrackballs(config)
extractTrackballs(config) ==
    IF Truthy(Get(config, "trackballs")) \/ Truthy(Get(config, "pointing_devices"))
    THEN LET devices == Or(Get(config, "trackballs"), Get(config, "pointing_devices")).v
         IN [j \in 1..Len(devices) |->
               [id |-> j - 1,
                name |-> StrFieldOr(devices[j], "name", "Trackball " \o ToString(j - 1 + 1)),
                type |-> StrFieldOr(devices[j], "type", "trackball"),
                sensitivity |-> NumFieldOr(devices[j], "sensitivity", 1)]]
    ELSE <<>>

\* extractDisplays(config)
extractDisplays(config) ==
    IF Truthy(Get(config, "displays")) \/ Truthy(Get(config, "oled"))
    THEN LET displayConfigs == IF Truthy(Get(config, "displays"))
                               THEN Get(config, "displays").v
                               ELSE <<Get(config, "oled").v>>
         IN [j \in 1..Len(displayConfigs) |->
               [id |-> j - 1,
                name |-> StrFieldOr(displayConfigs[j], "name",
                                 "Display " \o ToString(j - 1 + 1)),
                type |-> StrFieldOr(displayConfigs[j], "type", "oled"),
                width |-> NumFieldOr(displayConfigs[j], "width", 128),
                height |-> NumFieldOr(displayConfigs[j], "height", 32)]]
    ELSE <<>>

\* extractLayers(config)
extractLayers(config) ==
    IF Truthy(Get(config, "layers"))
    THEN LET layers == Get(config, "layers").v
         IN [j \in 1..Len(layers) |->
               [name |-> StrFieldOr(layers[j], "name", "Layer " \o ToString(j - 1)),
                keys |-> IF "keys" \in DOMAIN layers[j] THEN layers[j].keys ELSE <<>>]]
    ELSE <<>>

(***************************************************************************)
(* Extractor results: Return(draft model) or Throw(error message).         *)
(***************************************************************************)
Return(value) == [ok |-> TRUE, value |-> value]
Throw(message) == [ok |-> FALSE, message |-> message]

(***************************************************************************)
(* parseJsonFirmware.  The content of a structured document is             *)
(* [kind |-> "json", valid |-> syntax is valid, value |-> the document];   *)
(* JSON.parse throws on content that is not valid, and so do the property  *)
(* reads of lines 91-104 on the document null.  The documents are objects, *)
(* null, numbers and strings.                                              *)
(***************************************************************************)
parseJsonFirmware(content, fileName) ==
    IF content.kind # "json" \/ ~content.valid THEN Throw("Invalid JSON format")
    ELSE LET config == content.value
         IN IF config.t = "null" THEN Throw("Invalid JSON format")
            ELSE Return(
                [type |-> detectFirmwareType(config),
                 name |-> ConfigName(config, Str(fileName)),
                 layout |-> IF Truthy(Get(config, "layout"))
                            THEN Get(config, "layout")
                            ELSE detectLayoutFromConfig(config),
                 keys |-> extractKeys(config),
                 encoders |-> extractEncoders(config),
                 trackballs |-> extractTrackballs(config),
                 displays |-> extractDisplays(config),
                 layers |-> extractLayers(config),
                 metadata |-> [version |-> Get(config, "version"),
                               author |-> Get(config, "author"),
                               description |-> Get(config, "description"),
                               isSplit |-> detectSplitKeyboard(config),
                               split |-> Or(Get(config, "split"), Null)]])

(***************************************************************************)
(* Text scanning used by the keymap and the source extractors.             *)
(***************************************************************************)
CharAt(s, i) == SubSeq(s, i, i)
IsSpace(c) == c \in {" ", "\n", "\t"}
WordChars == "abcdefghijklmnopqrstuvwxyzABCDEFGHIJKLMNOPQRSTUVWXYZ0123456789_"
IsWord(c) == Len(c) = 1 /\ includes(WordChars, c)

\* String.prototype.trim
RECURSIVE TrimStart(_)
TrimStart(s) ==
    IF Len(s) > 0 /\ IsSpace(CharAt(s, 1)) THEN TrimStart(SubSeq(s, 2, Len(s))) ELSE s
RECURSIVE TrimEnd(_)
TrimEnd(s) ==
    IF Len(s) > 0 /\ IsSpace(CharAt(s, Len(s)))
    THEN TrimEnd(SubSeq(s, 1, Len(s) - 1)) ELSE s
Trim(s) == TrimEnd(TrimStart(s))

\* split(/\s+/): the runs of characters other than white space, in order,
\* with an empty piece in front of leading and behind trailing white space
SplitSpaces(s) ==
    LET space(i) == IsSpace(CharAt(s, i))
        starts == {i \in 1..Len(s) : ~space(i) /\ (i = 1 \/ space(i - 1))}
        ends == {i \in 1..Len(s) : ~space(i) /\ (i = Len(s) \/ space(i + 1))}
        nth(S, k) == CHOOSE i \in S : Cardinality({j \in S : j < i}) = k - 1
        runs == [k \in 1..Cardinality(starts) |-> SubSeq(s, nth(starts, k), nth(ends, k))]
    IN IF Len(s) = 0 THEN <<"">>
       ELSE (IF space(1) THEN <<"">> ELSE <<>>) \o runs
               \o (IF space(Len(s)) THEN <<"">> ELSE <<>>)

\* split(','): the pieces of s[i..] between commas
RECURSIVE SplitCommas(_, _, _)
SplitCommas(s, i, cur) ==
    IF i > Len(s) THEN <<cur>>
    ELSE IF CharAt(s, i) = "," THEN <<cur>> \o SplitCommas(s, i + 1, "")
    ELSE SplitCommas(s, i + 1, cur \o CharAt(s, i))

\* filter(piece => piece.length > 0)
NonEmpty(pieces) == SelectSeq(pieces, LAMBDA piece : Len(piece) > 0)

\* parseZmkBindings(bindingsStr)
parseZmkBindings(bindingsStr) == NonEmpty(SplitSpaces(Trim(bindingsStr)))

\* parseQmkKeycodes(keysStr)
parseQmkKeycodes(keysStr) ==
    LET keys == SplitCommas(keysStr, 1, "")
    IN NonEmpty([j \in 1..Len(keys) |-> Trim(keys[j])])

\* the number of matches of /k\w\w/g in s[i..]
RECURSIVE CountKeyMatches(_, _)
CountKeyMatches(s, i) ==
    IF i + 2 > Len(s) THEN 0
    ELSE IF CharAt(s, i) = "k" /\ IsWord(CharAt(s, i + 1)) /\ IsWord(CharAt(s, i + 2))
    THEN 1 + CountKeyMatches(s, i + 3)
    ELSE CountKeyMatches(s, i + 1)

\* String.prototype.endsWith
endsWith(s, suffix) ==
    Len(s) >= Len(suffix) /\ SubSeq(s, Len(s) - Len(suffix) + 1, Len(s)) = suffix

\* String.prototype.lastIndexOf for one character: 0-based, -1 when absent
lastIndexOf(s, c) ==
    LET at == {i \in 1..Len(s) : CharAt(s, i) = c}
    IN IF at = {} THEN -1 ELSE (CHOOSE i \in at : \A j \in at : j <= i) - 1

\* the number of "|" in s
RECURSIVE CountPipes(_)
CountPipes(s) ==
    IF Len(s) = 0 THEN 0
    ELSE (IF CharAt(s, 1) = "|" THEN 1 ELSE 0) + CountPipes(SubSeq(s, 2, Len(s)))

(***************************************************************************)
(* parseZmkKeymap.  A keymap text is                                       *)
(*   [kind |-> "keymap", lines |-> the lines outside the keymap block,     *)
(*    includes |-> the names of its #include directives, in order,         *)
(*    keymap |-> the layer blocks of its keymap block, in order];          *)
(* the field keymap is missing when the text has no keymap block, and a    *)
(* layer block is [name |-> ..., bindings |-> the text between < and >],   *)
(* without bindings when the block has none.                               *)
(***************************************************************************)
\* every piece of the text
KeymapTexts(content) ==
    {content.lines[i] : i \in 1..Len(content.lines)}
      \cup {content.includes[i] : i \in 1..Len(content.includes)}
      \cup (IF "keymap" \in DOMAIN content
            THEN {content.keymap[i].name : i \in 1..Len(content.keymap)}
                   \cup {content.keymap[i].bindings :
                            i \in {j \in 1..Len(content.keymap) :
                                      "bindings" \in DOMAIN content.keymap[j]}}
            ELSE {})

\* /\/\/.*\|.*\|.*\|.*\|.*\|.*\|.*\|.*\|/ on one line: 8 pipes after a "//"
CommentTable(line) ==
    \E i \in 1..(Len(line) - 1) :
        /\ SubSeq(line, i, i + 1) = "//"
        /\ CountPipes(SubSeq(line, i + 2, Len(line))) >= 8

\* lines 137-141
IsSplitFromContent(content) ==
    \/ \E text \in KeymapTexts(content) :
          \/ includes(text, "split")
          \/ includes(text, "left half")
          \/ includes(text, "right half")
          \/ includes(text, "|   |")
    \/ \E i \in 1..Len(content.lines) : CommentTable(content.lines[i])

\* lines 144-162: /keymap\s*{[\s\S]*?}/ ends at the first closing brace, that
\* of the first layer block, and /(\w+)\s*{([^}]*)}/ then matches it whole,
\* from the word keymap on: one layer, named keymap, with the first bindings
KeymapLayers(content) ==
    IF "keymap" \in DOMAIN content /\ Len(content.keymap) > 0
         /\ "bindings" \in DOMAIN content.keymap[1]
    THEN <<[name |-> "keymap", keys |-> parseZmkBindings(content.keymap[1].bindings)]>>
    ELSE <<>>

\* parseZmkKeymap taking the split path on a textual cue only
parseZmkKeymap_CueOnly(content, fileName) ==
    LET name == IF Len(content.includes) > 0
                THEN IF endsWith(content.includes[1], ".dtsi")
                     THEN SubSeq(content.includes[1], 1, Len(content.includes[1]) - 5)
                     ELSE content.includes[1]
                ELSE fileName
        layers == KeymapLayers(content)
        firstLayerKeyCount == Len(layers[1].keys)
        asSplit == IsSplitFromContent(content)
    IN [type |-> "ZMK",
        name |-> Str(name),
        layout |-> Null,
        keys |-> IF Len(layers) > 0
                 THEN IF asSplit
                      THEN generateSplitKeyPositions(firstLayerKeyCount, Obj(<<>>))
                      ELSE generateKeyPositions(firstLayerKeyCount)
                 ELSE <<>>,
        encoders |-> <<>>, trackballs |-> <<>>, displays |-> <<>>,
        layers |-> layers,
        metadata |-> IF Len(layers) > 0 /\ asSplit
                     THEN [isSplit |-> TRUE] ELSE <<>>]

\* parseZmkKeymap(content, fileName)
parseZmkKeymap(content, fileName) ==
    LET name == IF Len(content.includes) > 0
                THEN IF endsWith(content.includes[1], ".dtsi")
                     THEN SubSeq(content.includes[1], 1, Len(content.includes[1]) - 5)
                     ELSE content.includes[1]
                ELSE fileName
        layers == KeymapLayers(content)
        firstLayerKeyCount == Len(layers[1].keys)
        asSplit == IsSplitFromContent(content)
                     \/ (firstLayerKeyCount >= 30 /\ firstLayerKeyCount <= 50)
    IN [type |-> "ZMK",
        name |-> Str(name),
        layout |-> Null,
        keys |-> IF Len(layers) > 0
                 THEN IF asSplit
                      THEN generateSplitKeyPositions(firstLayerKeyCount, Obj(<<>>))
                      ELSE generateKeyPositions(firstLayerKeyCount)
                 ELSE <<>>,
        encoders |-> <<>>, trackballs |-> <<>>, displays |-> <<>>,
        layers |-> layers,
        metadata |-> IF Len(layers) > 0 /\ asSplit
                     THEN [isSplit |-> TRUE] ELSE <<>>]

(***************************************************************************)
(* parseQmkSource.  A source text is                                       *)
(*   [kind |-> "source", keyboardName |-> the name of its first            *)
(*    #define KEYBOARD_NAME "...", missing when it has none,               *)
(*    layouts |-> its LAYOUT invocations, in order],                       *)
(* an invocation being [macro |-> "LAYOUT...", args |-> the text between   *)
(* the parentheses], with layer |-> "..." when it is written               *)
(* [layer] = LAYOUT...(...).                                               *)
(***************************************************************************)
parseQmkSource(content, fileName) ==
    LET layoutStr == content.layouts[1].macro \o "(" \o content.layouts[1].args \o ")"
        keyMatches == IF Len(content.layouts) > 0 THEN CountKeyMatches(layoutStr, 1) ELSE 0
        withLayer == SelectSeq(content.layouts, LAMBDA l : "layer" \in DOMAIN l)
    IN [type |-> "QMK",
        name |-> Str(IF "keyboardName" \in DOMAIN content
                     THEN content.keyboardName ELSE fileName),
        layout |-> Null,
        keys |-> IF keyMatches > 0 THEN generateKeyPositions(keyMatches) ELSE <<>>,
        encoders |-> <<>>, trackballs |-> <<>>, displays |-> <<>>,
        layers |-> [j \in 1..Len(withLayer) |->
                      [name |-> Trim(withLayer[j].layer),
                       keys |-> parseQmkKeycodes(withLayer[j].args)]],
        metadata |-> <<>>]

\* parseBinaryFirmware(content, fileName)
parseBinaryFirmware(content, fileName) ==
    [type |-> IF endsWith(fileName, ".uf2") THEN "ZMK" ELSE "QMK",
     name |-> Str(fileName),
     layout |-> parser.keyboardLayouts["60"],
     keys |-> generateKeyPositions(61),
     encoders |-> <<>>, trackballs |-> <<>>, displays |-> <<>>,
     layers |-> <<[name |-> "base", keys |-> [j \in 1..61 |-> "KC_NO"]]>>,
     metadata |-> [note |-> "Binary firmware - limited parsing available"]]

(***************************************************************************)
(* detectLayout and parseFirmware.                                         *)
(***************************************************************************)
\* key.half is set
HasHalf(key) == "half" \in DOMAIN key /\ key.half # ""

\* detectLayout looking at the key count before the ZMK range
detectLayout_CountFirst(parsedData) ==
    LET keyCount == Len(parsedData.keys)
    IN IF "isSplit" \in DOMAIN parsedData.metadata /\ parsedData.metadata.isSplit
       THEN parser.keyboardLayouts["split"]
       ELSE IF \E i \in 1..keyCount : HasHalf(parsedData.keys[i])
       THEN parser.keyboardLayouts["split"]
       ELSE IF keyCount > 0 THEN detectLayoutByKeyCount(keyCount)
       ELSE IF parsedData.type = "ZMK" /\ keyCount > 0 /\ keyCount >= 30 /\ keyCount <= 50
       THEN parser.keyboardLayouts["split"]
       ELSE parser.keyboardLayouts["60"]

\* detectLayout(parsedData)
detectLayout(parsedData) ==
    LET keyCount == Len(parsedData.keys)
    IN IF "isSplit" \in DOMAIN parsedData.metadata /\ parsedData.metadata.isSplit
       THEN parser.keyboardLayouts["split"]
       ELSE IF \E i \in 1..keyCount : HasHalf(parsedData.keys[i])
       THEN parser.keyboardLayouts["split"]
       ELSE IF parsedData.type = "ZMK" /\ keyCount > 0 /\ keyCount >= 30 /\ keyCount <= 50
       THEN parser.keyboardLayouts["split"]
       ELSE IF keyCount > 0 THEN detectLayoutByKeyCount(keyCount)
       ELSE parser.keyboardLayouts["60"]

\* lines 24-25: the lower-cased file name and its extension
FileNameOf(file) == toLowerCase(file.name)
FileExtension(fileName) ==
    LET start == lastIndexOf(fileName, ".")
    IN SubSeq(fileName, (IF start < 0 THEN 0 ELSE start) + 1, Len(fileName))

\* the draft of lines 30-40 with the type of a structured config
EmptyDraft_Generic(fileName) ==
    [type |-> "Generic", name |-> Str(fileName), layout |-> Null, keys |-> <<>>,
     encoders |-> <<>>, trackballs |-> <<>>, displays |-> <<>>, layers |-> <<>>,
     metadata |-> <<>>]

\* lines 30-40
EmptyDraft(fileName) ==
    [type |-> "unknown", name |-> Str(fileName), layout |-> Null, keys |-> <<>>,
     encoders |-> <<>>, trackballs |-> <<>>, displays |-> <<>>, layers |-> <<>>,
     metadata |-> <<>>]

\* !parsedData.layout
NoLayout(parsedData) ==
    "t" \in DOMAIN parsedData.layout /\ ~Truthy(parsedData.layout)

\* lines 42-50: the extractor chosen by the extension
Extract(file) ==
    LET fileName == FileNameOf(file)
        fileExtension == FileExtension(fileName)
    IN IF fileExtension = ".json" THEN parseJsonFirmware(file.content, fileName)
       ELSE IF fileExtension = ".keymap" THEN Return(parseZmkKeymap(file.content, fileName))
       ELSE IF fileExtension = ".c" \/ fileExtension = ".h"
       THEN Return(parseQmkSource(file.content, fileName))
       ELSE IF fileExtension = ".hex" \/ fileExtension = ".uf2"
       THEN Return(parseBinaryFirmware(file.content, fileName))
       ELSE Return(EmptyDraft(fileName))

\* lines 30-61, once the content has been read
AfterRead(file) ==
    LET extracted == Extract(file)
    IN IF ~extracted.ok
       THEN Throw("Failed to parse firmware: " \o extracted.message)
       ELSE Return(IF NoLayout(extracted.value)
                   THEN [extracted.value EXCEPT !.layout = detectLayout(extracted.value)]
                   ELSE extracted.value)

(***************************************************************************)
(* The application: a VirtualKeyboardTester and its KeyboardRenderer.      *)
(* app.testLog holds the entries pushed since handleFiles was last called, *)
(* the older entries never being touched again.  Of the page, app holds    *)
(* the texts and the display styles the application writes; the canvas     *)
(* geometry and the drawing are left out.                                  *)
(***************************************************************************)
\* the display style and the text of an element the application has not written
PageStyle == ""
PageText == Undefined

\* KeyboardRenderer constructor
NewRenderer == [keys |-> <<>>, keyStates |-> <<>>]

\* setupEventListeners of the renderer: hoveredKey starts null and no timer is
\* pending.  A hovered key is [t |-> "key", index |-> its place in the keys
\* array, id |-> its id, current |-> it belongs to the array the renderer
\* holds now].  clicked and afterReset are history: the places of the keys
\* testKey was called on since the last resetTest or initializeKeyboard, and
\* whether the last of the two was a resetTest.
NewEnv == [timers |-> <<>>, hoveredKey |-> Null, clicked |-> {}, afterReset |-> FALSE]

\* initializeKeyboard replaces the keys array: a hovered key stays in
\* hoveredKey but belongs to the array that was replaced; the pending timers
\* are not cancelled
Replaced(e) ==
    [e EXCEPT !.hoveredKey = IF @.t = "null" THEN @ ELSE [@ EXCEPT !.current = FALSE],
              !.clicked = {},
              !.afterReset = FALSE]

\* VirtualKeyboardTester constructor
NewApp ==
    [currentFirmware |-> Null,
     keyboardRenderer |-> NewRenderer,
     testLog |-> <<>>,
     firmwareInfo |-> [display |-> PageStyle, firmwareType |-> PageText,
                       keyboardName |-> PageText, layoutName |-> PageText,
                       keyCount |-> PageText],
     workspace |-> PageStyle,
     keysTestered |-> PageText,
     totalKeys |-> PageText,
     encoderSection |-> [display |-> PageStyle, items |-> <<>>],
     trackballSection |-> [display |-> PageStyle, items |-> <<>>],
     displaySection |-> [display |-> PageStyle, items |-> <<>>]]

\* a value inside a template literal
Text(x) ==
    CASE x.t = "str" -> x.v
      [] x.t = "num" -> ToString(x.v)
      [] x.t = "bool" -> IF x.v THEN "true" ELSE "false"
      [] x.t = "null" -> "null"
      [] x.t = "undefined" -> "undefined"
      [] OTHER -> "[object Object]"

\* addLogEntry(message, type), the entry pushed
LogEntry(message, type) == [message |-> message, type |-> type]

\* key.id as a Map key, -1 standing for undefined
KeyId(key) == IF "id" \in DOMAIN key THEN key.id ELSE -1

\* initializeKeyboard(firmwareData), the renderer it leaves
initializeKeyboard(firmwareData) ==
    [keys |-> firmwareData.keys,
     keyStates |-> [id \in {KeyId(firmwareData.keys[i]) : i \in 1..Len(firmwareData.keys)}
                      |-> "untested"]]

\* getTestStats()
getTestStats(renderer) ==
    LET testedCount ==
            Cardinality({id \in DOMAIN renderer.keyStates : renderer.keyStates[id] = "tested"})
    IN [totalKeys |-> Len(renderer.keys),
        testedKeys |-> testedCount,
        untestedKeys |-> Len(renderer.keys) - testedCount]

\* firmwareData.layout ? firmwareData.layout.name : 'Auto-detected'
LayoutNameOf(layout) ==
    IF "t" \in DOMAIN layout
    THEN IF Truthy(layout) THEN Get(layout, "name") ELSE Str("Auto-detected")
    ELSE Str(layout.name)

\* displayFirmwareInfo(firmwareData), the texts it writes
displayFirmwareInfo(firmwareData) ==
    [display |-> "block",
     firmwareType |-> Str(firmwareData.type),
     keyboardName |-> firmwareData.name,
     layoutName |-> LayoutNameOf(firmwareData.layout),
     keyCount |-> Num(Len(firmwareData.keys))]

\* setupEncoders, setupTrackballs, setupDisplays: the section they leave
SetupSection(section, components) ==
    IF Len(components) = 0 THEN [section EXCEPT !.display = "none"]
    ELSE [display |-> "block", items |-> components]

\* the entry setupEncoders, setupTrackballs and setupDisplays push
FoundEntry(components, kind) ==
    IF Len(components) = 0 THEN <<>>
    ELSE <<LogEntry("Found " \o ToString(Len(components)) \o " " \o kind \o "(s)", "info")>>

\* lines 160-166 of handleFiles: the application once firmwareData is loaded
Loaded(a, firmwareData) ==
    LET renderer == initializeKeyboard(firmwareData)
        stats == getTestStats(renderer)
    IN [currentFirmware |-> firmwareData,
        keyboardRenderer |-> renderer,
        firmwareInfo |-> displayFirmwareInfo(firmwareData),
        keysTestered |-> Num(stats.testedKeys),
        totalKeys |-> Num(stats.totalKeys),
        encoderSection |-> SetupSection(a.encoderSection, firmwareData.encoders),
        trackballSection |-> SetupSection(a.trackballSection, firmwareData.trackballs),
        displaySection |-> SetupSection(a.displaySection, firmwareData.displays),
        workspace |-> "block",
        testLog |-> a.testLog
                      \o FoundEntry(firmwareData.encoders, "encoder")
                      \o FoundEntry(firmwareData.trackballs, "trackball")
                      \o FoundEntry(firmwareData.displays, "display")
                      \o <<LogEntry("Initialized keyboard with "
                                      \o ToString(Len(renderer.keys)) \o " keys", "info"),
                            LogEntry("Successfully loaded firmware: "
                                      \o Text(firmwareData.name), "success")>>]

\* line 168 of handleFiles: the application once the parse has failed
Failed_ClearsFirmware(a, message) ==
    [a EXCEPT !.currentFirmware = Null,
              !.testLog = Append(@, LogEntry("Error loading firmware: " \o message, "error"))]

Failed(a, message) ==
    [a EXCEPT !.testLog = Append(@, LogEntry("Error loading firmware: " \o message, "error"))]

(***************************************************************************)
(* Inputs of the function specification SpecFn.                            *)
(***************************************************************************)
\* all sequences over S of length 0..n
RECURSIVE SeqsUpTo(_, _)
SeqsUpTo(S, n) ==
    IF n = 0 THEN {<<>>}
    ELSE LET shorter == SeqsUpTo(S, n - 1)
         IN shorter \cup {Append(q, e) : q \in shorter, e \in S}

\* x = 0..5 and 10..15 units on one row
ExampleLayout ==
    [j \in 1..12 |-> [x |-> 2 * (IF j <= 6 THEN j - 1 ELSE j + 3), y |-> 0]]

\* the same keys listed right half first, with matrix positions and a 2u key
ShuffledLayout ==
    [j \in 1..12 |->
        IF j <= 6 THEN [x |-> 2 * (j + 9), y |-> 2, matrix |-> <<1, j - 1>>]
        ELSE [x |-> 2 * (j - 7), y |-> 2, w |-> 2, keycode |-> "KC_A"]]

\* layouts with two largest gaps: x = 0, 2, 4 units in every order, and
\* x = 0, 1, 3.5, 4.5, 7 units in two orders
TiedLayouts ==
    {<<[x |-> p[1], y |-> 0], [x |-> p[2], y |-> 0], [x |-> p[3], y |-> 0]>> :
        p \in {q \in {0, 4, 8} \X {0, 4, 8} \X {0, 4, 8} : Cardinality({q[1], q[2], q[3]}) = 3}}
      \cup {[j \in 1..5 |-> [x |-> <<0, 2, 7, 9, 14>>[j], y |-> 2]],
             [j \in 1..5 |-> [x |-> <<14, 7, 0, 9, 2>>[j], y |-> 2]]}

LayoutArrays ==
    SeqsUpTo({[x |-> a, y |-> 0] : a \in 0..MaxX}, MaxLayoutLen)
        \cup {ExampleLayout, ShuffledLayout} \cup TiedLayouts

\* a property list holding k |-> v unless v is undefined
Field(k, v) == IF v.t = "undefined" THEN <<>> ELSE <<<<k, v>>>>

SplitValues ==
    {Undefined, Bool(TRUE), Bool(FALSE),
     Obj(<<<<"enabled", Bool(TRUE)>>>>), Obj(<<<<"enabled", Bool(FALSE)>>>>),
     Obj(<<<<"handedness", Str("left")>>>>),
     Obj(<<<<"soft_serial_pin", Str("D0")>>>>), Obj(<<>>)}

LayoutValues ==
    {Undefined, Str("LAYOUT_split_3x6_3"), Str("LAYOUT_60_ansi"), Str("Kyria"),
     Str("Iris rev4"), Str("LAYOUT"),
     Obj(<<<<"name", Str("60%")>>, <<"rows", Num(5)>>, <<"cols", Num(14)>>>>)}

OneKeyLayout == Obj(<<<<"layout", Arr(<<[x |-> 0, y |-> 0]>>)>>>>)

LayoutsValues ==
    {Undefined,
     Obj(<<<<"LAYOUT", OneKeyLayout>>>>),
     Obj(<<<<"LAYOUT_Split_3x6", OneKeyLayout>>>>),
     Obj(<<<<"LAYOUT_ortho", Obj(<<>>)>>, <<"LAYOUT_all", OneKeyLayout>>>>)}

\* <<keyboard_name, keyboard, name>>
NameValues ==
    {<<Undefined, Undefined, Undefined>>,
     <<Undefined, Str("Corne"), Undefined>>,
     <<Str("Planck"), Str("corne"), Undefined>>,
     <<Undefined, Undefined, Str("my_split_kb")>>,
     <<Str("RattusBoard v2"), Undefined, Undefined>>,
     <<Undefined, Str("crkbd/rev1"), Str("Planck")>>,
     <<Undefined, Str("Kyria"), Undefined>>,
     <<Str(""), Str("GH60"), Str("lily58")>>}

SplitConfigs ==
    {Obj(Field("keyboard_name", n[1]) \o Field("keyboard", n[2]) \o Field("name", n[3])
           \o Field("split", s) \o Field("layout", l) \o Field("layouts", ls)) :
        n \in NameValues, s \in SplitValues, l \in LayoutValues, ls \in LayoutsValues}

\* key sources of a structured config (lines 318-338)
KeysValues ==
    {Undefined, Arr(<<>>),
     Arr(<<[id |-> 0, x |-> 10, y |-> 10, width |-> 45, height |-> 45]>>)}

NestedLayoutValues ==
    {Undefined, Str("LAYOUT"),
     Obj(<<<<"name", Str("60%")>>,
           <<"keys", Arr(<<[id |-> 0, x |-> 0, y |-> 0], [id |-> 1, x |-> 50, y |-> 0]>>)>>>>)}

TwoKeyLayout == Obj(<<<<"layout", Arr(<<[x |-> 0, y |-> 0], [x |-> 2, y |-> 3]>>)>>>>)

SubLayoutValues ==
    {Undefined,
     Obj(<<<<"LAYOUT", OneKeyLayout>>>>),
     Obj(<<<<"LAYOUT_ortho", Obj(<<>>)>>, <<"LAYOUT_all", TwoKeyLayout>>,
           <<"LAYOUT_ansi", OneKeyLayout>>>>)}

\* <<rows, cols>>
MatrixSizes == {<<1, 1>>, <<4, 12>>, <<5, 14>>, <<6, 7>>, <<10, 6>>}

MatrixValues ==
    {Undefined} \cup {Obj(<<<<"rows", Num(m[1])>>, <<"cols", Num(m[2])>>>>) : m \in MatrixSizes}

KeySourceConfigs ==
    {Obj(Field("keys", k) \o Field("layout", l) \o Field("layouts", ls)
           \o Field("matrix", m) \o Field("split", s)) :
        k \in KeysValues, l \in NestedLayoutValues, ls \in SubLayoutValues,
        m \in MatrixValues, s \in {Undefined, Bool(TRUE)}}

\* draft models for detectLayout (lines 667-691): the key counts
DraftKeyCounts == {0, 1, 29, 30, 31, 42, 50, 51, 61, MaxKeyCount}

\* n flat keys, the last one with the given half when there is one
DraftKeys(n, half) ==
    IF n = 0 \/ half = "none" THEN generateKeyPositions(n)
    ELSE [generateKeyPositions(n) EXCEPT ![n] = [half |-> half] @@ @]

DraftModels ==
    {[type |-> type, name |-> Str("draft"), layout |-> Null, keys |-> DraftKeys(n, half),
      encoders |-> <<>>, trackballs |-> <<>>, displays |-> <<>>, layers |-> <<>>,
      metadata |-> metadata] :
        type \in {"ZMK", "QMK", "Generic", "unknown"},
        n \in DraftKeyCounts,
        half \in {"none", "", "left"},
        metadata \in {<<>>, [isSplit |-> TRUE], [isSplit |-> FALSE]}}

\* configs for generateSplitKeyPositions: none, a coordinate array, a
\* sub-layout without one
SplitSynthesisConfigs ==
    {Obj(<<>>),
     Obj(<<<<"layouts", Obj(<<<<"LAYOUT", TwoKeyLayout>>>>)>>>>),
     Obj(<<<<"layouts", Obj(<<<<"LAYOUT_split_3x6_3", Obj(<<>>)>>>>)>>>>)}

(***************************************************************************)
(* SpecFn: the synthesis and inference functions applied to inputs.        *)
(***************************************************************************)
NoInvocation == [pc |-> "idle"]

InitFn ==
    /\ parser = NewParser
    /\ call = [fn |-> "none"]
    /\ ret = Undefined
    /\ inv = NoInvocation
    /\ last = NoInvocation
    /\ app = NewApp
    /\ slots = <<>>
    /\ env = NewEnv

CallDetectLayoutByKeyCount ==
    \E n \in 0..MaxKeyCount :
        /\ call.fn = "none"
        /\ call' = [fn |-> "detectLayoutByKeyCount", keyCount |-> n]
        /\ ret' = detectLayoutByKeyCount(n)
        /\ UNCHANGED <<parser, inv, last, app, slots, env>>

CallGenerateKeyPositions ==
    \E n \in 0..MaxKeyCount :
        /\ call.fn = "none"
        /\ call' = [fn |-> "generateKeyPositions", keyCount |-> n]
        /\ ret' = generateKeyPositions(n)
        /\ UNCHANGED <<parser, inv, last, app, slots, env>>

CallGenerateKeysFromLayout ==
    \E layoutArray \in LayoutArrays, isSplit \in BOOLEAN :
        /\ call.fn = "none"
        /\ call' = [fn |-> "generateKeysFromLayout",
                    layoutArray |-> layoutArray, isSplit |-> isSplit]
        /\ ret' = generateKeysFromLayout(layoutArray, isSplit)
        /\ UNCHANGED <<parser, inv, last, app, slots, env>>

CallDetectSplitKeyboard ==
    \E config \in SplitConfigs :
        /\ call.fn = "none"
        /\ call' = [fn |-> "detectSplitKeyboard", config |-> config]
        /\ ret' = detectSplitKeyboard(config)
        /\ UNCHANGED <<parser, inv, last, app, slots, env>>

CallExtractKeys ==
    \E config \in KeySourceConfigs :
        /\ call.fn = "none"
        /\ call' = [fn |-> "extractKeys", config |-> config]
        /\ ret' = extractKeys(config)
        /\ UNCHANGED <<parser, inv, last, app, slots, env>>

CallDetectLayout ==
    \E parsedData \in DraftModels :
        /\ call.fn = "none"
        /\ call' = [fn |-> "detectLayout", parsedData |-> parsedData]
        /\ ret' = detectLayout(parsedData)
        /\ UNCHANGED <<parser, inv, last, app, slots, env>>

CallGenerateSplitKeyPositions ==
    \E keyCount \in 0..MaxKeyCount, config \in SplitSynthesisConfigs :
        /\ call.fn = "none"
        /\ call' = [fn |-> "generateSplitKeyPositions",
                    keyCount |-> keyCount, config |-> config]
        /\ ret' = generateSplitKeyPositions(keyCount, config)
        /\ UNCHANGED <<parser, inv, last, app, slots, env>>

NextFn ==
    \/ CallDetectLayoutByKeyCount
    \/ CallGenerateKeyPositions
    \/ CallGenerateKeysFromLayout
    \/ CallDetectSplitKeyboard
    \/ CallExtractKeys
    \/ CallDetectLayout
    \/ CallGenerateSplitKeyPositions

SpecFn == InitFn /\ [][NextFn]_vars

(***************************************************************************)
(* Inputs of the parsing specification Spec: the files given to            *)
(* parseFirmware.  A file is [name, readable, content]; readable says      *)
(* whether the FileReader ends with onload (TRUE) or onerror (FALSE).      *)
(***************************************************************************)
JsonFile(name, value) ==
    [name |-> name, readable |-> TRUE,
     content |-> [kind |-> "json", valid |-> TRUE, value |-> value]]

\* n binding tokens, one per line
RECURSIVE Bindings(_)
Bindings(n) == IF n = 0 THEN "\n" ELSE Bindings(n - 1) \o "  &trans\n"

KeymapFile(name, lines, directives, blocks) ==
    [name |-> name, readable |-> TRUE,
     content |-> [kind |-> "keymap", lines |-> lines, includes |-> directives,
                  keymap |-> blocks]]

SourceFile(name, layouts) ==
    [name |-> name, readable |-> TRUE,
     content |-> [kind |-> "source", layouts |-> layouts]]

BinaryFile(name) == [name |-> name, readable |-> TRUE, content |-> [kind |-> "binary"]]

\* {keyboard: "Corne", split: {enabled: true}}
CorneFile ==
    JsonFile("corne.json",
             Obj(<<<<"keyboard", Str("Corne")>>,
                   <<"split", Obj(<<<<"enabled", Bool(TRUE)>>>>)>>>>))

\* one layer of 48 binding tokens, no split cue
Keymap48File ==
    KeymapFile("planck.keymap", <<"// Planck">>, <<"behaviors.dtsi">>,
               <<[name |-> "default_layer", bindings |-> Bindings(48)]>>)

\* 24 bindings of two tokens each on one line, no include and no comment
RECURSIVE KeyPresses(_)
KeyPresses(n) == IF n = 0 THEN "" ELSE KeyPresses(n - 1) \o " &kp A"

Keymap48PairsFile ==
    KeymapFile("grid.keymap", <<>>, <<>>,
               <<[name |-> "base", bindings |-> KeyPresses(24)]>>)

\* an explicit keys array whose ids are not 0..N-1
ExplicitKeysFile ==
    JsonFile("macropad.json",
             Obj(<<<<"name", Str("Macropad")>>,
                   <<"keys", Arr(<<[id |-> 5, row |-> 0, col |-> 0, x |-> 10, y |-> KeyOrigin,
                                    width |-> 45, height |-> 45, keycode |-> "KC_A"],
                                   [id |-> 5, row |-> 0, col |-> 1, x |-> 60, y |-> KeyOrigin,
                                    width |-> 45, height |-> 45, keycode |-> "KC_B"]>>)>>>>))

\* a coordinate layout and no split signal
CoordinateFile ==
    JsonFile("numpad.json",
             Obj(<<<<"keyboard_name", Str("Numpad")>>,
                   <<"layouts",
                     Obj(<<<<"LAYOUT",
                             Obj(<<<<"layout", Arr(<<[x |-> 0, y |-> 0],
                                                     [x |-> 2, y |-> 0]>>)>>>>)>>>>)>>>>))

\* a coordinate layout of a split keyboard, with a gap of 3 units
SplitCoordinateFile ==
    JsonFile("sweep.json",
             Obj(<<<<"keyboard_name", Str("Sweep")>>,
                   <<"split", Bool(TRUE)>>,
                   <<"layouts",
                     Obj(<<<<"LAYOUT_split",
                             Obj(<<<<"layout", Arr(<<[x |-> 0, y |-> 0], [x |-> 2, y |-> 0],
                                                     [x |-> 8, y |-> 0],
                                                     [x |-> 10, y |-> 0]>>)>>>>)>>>>)>>>>))

\* a split keyboard with explicit keys that carry no half
SplitExplicitKeysFile ==
    JsonFile("halves.json",
             Obj(<<<<"name", Str("Halves")>>, <<"split", Bool(TRUE)>>,
                   <<"keys", Arr(<<[id |-> 0, row |-> 0, col |-> 0, x |-> 10, y |-> KeyOrigin,
                                    width |-> 45, height |-> 45, keycode |-> "KC_A"]>>)>>>>))

Files ==
    {CorneFile, Keymap48File, Keymap48PairsFile, ExplicitKeysFile, CoordinateFile, SplitCoordinateFile,
     SplitExplicitKeysFile,
     JsonFile("empty.json", Obj(<<>>)),
     JsonFile("Planck.JSON",
              Obj(<<<<"keyboard", Str("Planck")>>,
                    <<"matrix", Obj(<<<<"rows", Num(4)>>, <<"cols", Num(12)>>>>)>>>>)),
     JsonFile("lily.json",
              Obj(<<<<"name", Str("Lily58")>>, <<"zmk", Bool(TRUE)>>,
                    <<"split", Obj(<<<<"handedness", Str("left")>>>>)>>,
                    <<"matrix", Obj(<<<<"rows", Num(10)>>, <<"cols", Num(6)>>>>)>>>>)),
     JsonFile("gh60.json",
              Obj(<<<<"keyboard", Str("GH60")>>, <<"layout", Str("LAYOUT_60_ansi")>>,
                    <<"version", Str("1.0")>>,
                    <<"encoders", Arr(<<[pins |-> <<"B0", "B1">>],
                                        [name |-> "Volume", steps |-> 24]>>)>>,
                    <<"trackballs", Arr(<<[sensitivity |-> 2]>>)>>,
                    <<"oled", Rec([width |-> 128])>>,
                    <<"layers", Arr(<<[keys |-> <<"KC_ESC">>]>>)>>>>)),
     JsonFile("nested.json",
              Obj(<<<<"layout",
                      Obj(<<<<"name", Str("60%")>>,
                            <<"keys", Arr(<<[id |-> 0, row |-> 0, col |-> 0, x |-> 10,
                                             y |-> 10, width |-> 45, height |-> 45,
                                             keycode |-> "KC_ESC"]>>)>>>>)>>>>)),
     JsonFile("null.json", Null),
     JsonFile("seven.json", Num(7)),
     JsonFile("word.json", Str("corne")),
     [name |-> "broken.json", readable |-> TRUE,
      content |-> [kind |-> "json", valid |-> FALSE]],
     [name |-> "gone.json", readable |-> FALSE, content |-> [kind |-> "json", valid |-> TRUE]],
     KeymapFile("corne.keymap", <<"// left half | right half">>,
                <<"behaviors.dtsi", "dt-bindings/zmk/keys.h">>,
                <<[name |-> "default_layer", bindings |-> Bindings(10)],
                  [name |-> "lower_layer", bindings |-> Bindings(10)]>>),
     KeymapFile("macro.keymap", <<>>, <<>>,
                <<[name |-> "default_layer", bindings |-> " &kp A\t&kp B  "]>>),
     KeymapFile("table.keymap", <<"// | Q | W | E | R | T | Y | U |">>, <<"keys.h">>,
                <<[name |-> "base"], [name |-> "nav", bindings |-> Bindings(4)]>>),
     [name |-> "bare.keymap", readable |-> TRUE,
      content |-> [kind |-> "keymap", lines |-> <<"// no keymap block">>,
                   includes |-> <<>>]],
     SourceFile("keymap.c",
                <<[layer |-> "0", macro |-> "LAYOUT", args |-> "KC_A, KC_B , ,KC_C"],
                  [layer |-> " _FN ", macro |-> "LAYOUT", args |-> "KC_TRNS"]>>),
     [name |-> "planck.h", readable |-> TRUE,
      content |-> [kind |-> "source", keyboardName |-> "Planck",
                   layouts |-> <<[macro |-> "LAYOUT_planck_grid",
                                  args |-> "k00, k01, k02, k10, k11, k12"]>>]],
     SourceFile("config.h", <<>>),
     BinaryFile("firmware.hex"), BinaryFile("Firmware.UF2"),
     [name |-> "notes.txt", readable |-> TRUE, content |-> [kind |-> "text"]],
     [name |-> "README", readable |-> TRUE, content |-> [kind |-> "text"]]}

(***************************************************************************)
(* Spec: parseFirmware called again and again on one parser instance, one  *)
(* invocation at a time.  An invocation is suspended once, at              *)
(* await readFileContent (line 28); inv keeps its outcome until the next   *)
(* call, which moves it to last.                                           *)
(***************************************************************************)
Init ==
    /\ parser = NewParser
    /\ call = [fn |-> "none"]
    /\ ret = Undefined
    /\ inv = NoInvocation
    /\ last = NoInvocation
    /\ app = NewApp
    /\ slots = <<>>
    /\ env = NewEnv

\* lines 24-28: parseFirmware(file) up to the await
ParseFirmware ==
    \E file \in Files :
        /\ inv.pc # "reading"
        /\ inv' = [pc |-> "reading", file |-> file]
        /\ last' = inv
        /\ UNCHANGED <<parser, call, ret, app, slots, env>>

\* a parse that adds a row to the split entry of the catalog it returns
ReadResolved_GrowsCatalog ==
    /\ inv.pc = "reading"
    /\ inv.file.readable
    /\ inv' = IF AfterRead(inv.file).ok
              THEN [pc |-> "returned", file |-> inv.file,
                    model |-> AfterRead(inv.file).value]
              ELSE [pc |-> "thrown", file |-> inv.file,
                    message |-> AfterRead(inv.file).message]
    /\ parser' = [parser EXCEPT !.keyboardLayouts["split"].rows = @ + 1]
    /\ UNCHANGED <<call, ret, last, app, slots, env>>

\* reader.onload (line 71), then lines 30-61
ReadResolved ==
    /\ inv.pc = "reading"
    /\ inv.file.readable
    /\ inv' = IF AfterRead(inv.file).ok
              THEN [pc |-> "returned", file |-> inv.file,
                    model |-> AfterRead(inv.file).value]
              ELSE [pc |-> "thrown", file |-> inv.file,
                    message |-> AfterRead(inv.file).message]
    /\ UNCHANGED <<parser, call, ret, last, app, slots, env>>

\* reader.onerror (line 72), then lines 58-61
ReadRejected ==
    /\ inv.pc = "reading"
    /\ ~inv.file.readable
    /\ inv' = [pc |-> "thrown", file |-> inv.file,
               message |-> "Failed to parse firmware: " \o "Failed to read file"]
    /\ UNCHANGED <<parser, call, ret, last, app, slots, env>>

Next ==
    \/ ParseFirmware
    \/ ReadResolved
    \/ ReadRejected

Spec == Init /\ [][Next]_vars

(***************************************************************************)
(* SpecApp: files given to the application one after the other.            *)
(* handleFiles is suspended at await parseFirmware (line 159) and goes on  *)
(* when the invocation has returned or thrown.                             *)
(***************************************************************************)
\* the file lists dropped or chosen
FileLists == {<<file>> : file \in Files} \cup {<<CorneFile, Keymap48File>>}

\* lines 150-159: handleFiles(files) up to the await
HandleFiles ==
    \E files \in FileLists :
        /\ inv.pc \in {"idle", "handled"}
        /\ Len(files) # 0
        /\ app' = [app EXCEPT !.testLog =
                      <<LogEntry("Processing " \o ToString(Len(files)) \o " file(s)...", "info"),
                        LogEntry("Parsing firmware file: " \o files[1].name, "info")>>]
        /\ inv' = [pc |-> "reading", file |-> files[1]]
        /\ UNCHANGED <<parser, call, ret, last, slots, env>>

\* lines 160-166
HandleFilesLoaded ==
    /\ inv.pc = "returned"
    /\ app' = Loaded(app, inv.model)
    /\ env' = Replaced(env)
    /\ inv' = [pc |-> "handled", file |-> inv.file, ok |-> TRUE]
    /\ UNCHANGED <<parser, call, ret, last, slots>>

\* lines 167-170
HandleFilesFailed ==
    /\ inv.pc = "thrown"
    /\ app' = Failed(app, inv.message)
    /\ inv' = [pc |-> "handled", file |-> inv.file, ok |-> FALSE]
    /\ UNCHANGED <<parser, call, ret, last, slots, env>>

NextApp ==
    \/ HandleFiles
    \/ ReadResolved
    \/ ReadRejected
    \/ HandleFilesLoaded
    \/ HandleFilesFailed

SpecApp == Init /\ [][NextApp]_vars

(***************************************************************************)
(* SpecPar: files given to the application while earlier ones are still    *)
(* being read.  Every handleFiles invocation calls parseFirmware on the    *)
(* one parser (line 159) and is suspended at the content read; the reads   *)
(* complete in any order.  A slot is [pc |-> "reading", file |-> ...,      *)
(* overlaps |-> an earlier invocation was still reading at the call] and,  *)
(* once settled, [pc |-> "handled", ok |-> ..., model or message |-> ...,  *)
(* at |-> the number of invocations settled before it].                    *)
(***************************************************************************)
MaxInFlight == 2

\* the files given in SpecPar
ParFiles ==
    {file \in Files :
        file.name \in {"nested.json", "macro.keymap", "numpad.json", "notes.txt",
                       "broken.json", "gone.json"}}

Reading(s) == {i \in 1..Len(s) : s[i].pc = "reading"}

\* handleFiles lines 150-159, parseFirmware lines 24-28
SubmitFile ==
    \E file \in ParFiles :
        /\ Reading(slots) = {} \/ Len(slots) < MaxInFlight
        /\ slots' = (IF Reading(slots) = {} THEN <<>> ELSE slots)
                       \o <<[pc |-> "reading", file |-> file,
                              overlaps |-> Reading(slots) # {}]>>
        /\ app' = [app EXCEPT !.testLog =
                      <<LogEntry("Processing " \o ToString(1) \o " file(s)...", "info"),
                        LogEntry("Parsing firmware file: " \o file.name, "info")>>]
        /\ UNCHANGED <<parser, call, ret, inv, last, env>>

\* the outcome of parseFirmware once the read of file has completed
Outcome(file) ==
    IF file.readable THEN AfterRead(file)
    ELSE Throw("Failed to parse firmware: " \o "Failed to read file")

\* a read that completes and adds a row to the split entry of the catalog
ReadSettled_GrowsCatalog ==
    \E i \in Reading(slots) :
        LET outcome == Outcome(slots[i].file)
            at == Len(slots) - Cardinality(Reading(slots))
        IN /\ slots' = [slots EXCEPT ![i] =
                           IF outcome.ok
                           THEN [pc |-> "handled", file |-> slots[i].file,
                                 overlaps |-> slots[i].overlaps, ok |-> TRUE,
                                 model |-> outcome.value, at |-> at]
                           ELSE [pc |-> "handled", file |-> slots[i].file,
                                 overlaps |-> slots[i].overlaps, ok |-> FALSE,
                                 message |-> outcome.message, at |-> at]]
           /\ app' = IF outcome.ok THEN Loaded(app, outcome.value)
                     ELSE Failed(app, outcome.message)
           /\ parser' = [parser EXCEPT !.keyboardLayouts["split"].rows = @ + 1]
           /\ env' = IF outcome.ok THEN Replaced(env) ELSE env
           /\ UNCHANGED <<call, ret, inv, last>>

\* a read completes: parseFirmware lines 30-61, then handleFiles lines 160-170
ReadSettled ==
    \E i \in Reading(slots) :
        LET outcome == Outcome(slots[i].file)
            at == Len(slots) - Cardinality(Reading(slots))
        IN /\ slots' = [slots EXCEPT ![i] =
                           IF outcome.ok
                           THEN [pc |-> "handled", file |-> slots[i].file,
                                 overlaps |-> slots[i].overlaps, ok |-> TRUE,
                                 model |-> outcome.value, at |-> at]
                           ELSE [pc |-> "handled", file |-> slots[i].file,
                                 overlaps |-> slots[i].overlaps, ok |-> FALSE,
                                 message |-> outcome.message, at |-> at]]
           /\ app' = IF outcome.ok THEN Loaded(app, outcome.value)
                     ELSE Failed(app, outcome.message)
           /\ env' = IF outcome.ok THEN Replaced(env) ELSE env
           /\ UNCHANGED <<parser, call, ret, inv, last>>

NextPar ==
    \/ SubmitFile
    \/ ReadSettled

SpecPar == Init /\ [][NextPar]_vars

(***************************************************************************)
(* SpecTest: the key test.  Small firmware files are loaded one after the  *)
(* other and, at any moment, the mouse moves over the canvas, leaves it or *)
(* clicks, a key of the real keyboard goes down, a press timer fires, or   *)
(* the reset or the export button is clicked.  Points are taken in         *)
(* keyboard coordinates.                                                   *)
(* app.testLog holds the entries pushed by the last of these events.       *)
(* The events are taken between the loads: handleFiles writes only the log *)
(* before its await, so an event that arrives while the file is read       *)
(* leaves the renderer it leaves just before handleFiles, and a load is    *)
(* one step, from the call of handleFiles to the end of                    *)
(* initializeWorkspace.                                                    *)
(***************************************************************************)
MaxTimers == 1

\* the files loaded in SpecTest: two keys with ids 0 and 1, two keys that
\* share the id 5, and no key
TestFiles ==
    LET TestKeySpec(id, col, keycode) ==
            [id |-> id, row |-> 0, col |-> col, x |-> KeyOrigin + col * KeyPitch,
             y |-> KeyOrigin, width |-> KeyBox, height |-> KeyBox, keycode |-> keycode]
    IN
    {JsonFile("pair.json",
              Obj(<<<<"keys", Arr(<<TestKeySpec(0, 0, "KC_A"), TestKeySpec(1, 1, "KC_B")>>)>>>>)),
     JsonFile("twin.json",
              Obj(<<<<"keys", Arr(<<TestKeySpec(5, 0, "KC_A"), TestKeySpec(5, 1, "KC_B")>>)>>>>)),
     [name |-> "notes.txt", readable |-> TRUE, content |-> [kind |-> "text"]]}

\* a point on the first key, on the second key, and beside the keys
Points == {<<30, 30>>, <<80, 30>>, <<300, 300>>}

\* keyStates.get(id)
StateOf(renderer, id) ==
    IF id \in DOMAIN renderer.keyStates THEN renderer.keyStates[id] ELSE "undefined"

\* keyStates.set(id, state)
SetState(renderer, id, state) ==
    [renderer EXCEPT !.keyStates =
        [i \in DOMAIN @ \cup {id} |-> IF i = id THEN state ELSE @[i]]]

\* getKeyAtPosition(x, y): the place of the first key that holds the point,
\* 0 standing for null
getKeyAtPosition(renderer, x, y) ==
    LET hits == {i \in 1..Len(renderer.keys) :
                    /\ x >= renderer.keys[i].x
                    /\ x <= renderer.keys[i].x + renderer.keys[i].width
                    /\ y >= renderer.keys[i].y
                    /\ y <= renderer.keys[i].y + renderer.keys[i].height}
    IN IF hits = {} THEN 0 ELSE CHOOSE i \in hits : \A j \in hits : i <= j

\* keys.find(k => k.id === keyId), 0 standing for undefined
FindKey(renderer, keyId) ==
    LET hits == {i \in 1..Len(renderer.keys) : KeyId(renderer.keys[i]) = keyId}
    IN IF hits = {} THEN 0 ELSE CHOOSE i \in hits : \A j \in hits : i <= j

\* updateStats()
updateStats(a) ==
    [a EXCEPT !.keysTestered = Num(getTestStats(a.keyboardRenderer).testedKeys),
              !.totalKeys = Num(getTestStats(a.keyboardRenderer).totalKeys)]

\* testKey(key) with logKeyTest and the keyTestLog listener, up to setTimeout
testKey(a, i) ==
    LET key == a.keyboardRenderer.keys[i]
        message == "Key " \o ToString(key.id) \o " tested (" \o key.keycode
                      \o ") - Row: " \o ToString(key.row) \o ", Col: " \o ToString(key.col)
    IN [a EXCEPT !.keyboardRenderer = SetState(@, KeyId(key), "pressed"),
                 !.testLog = <<LogEntry(message, "success")>>]

\* setTimeout of testKey: one more timer pending
Pressed(e, renderer, i) ==
    [e EXCEPT !.timers = Append(@, KeyId(renderer.keys[i])),
              !.clicked = @ \cup {i}]

\* the mousemove listener
MouseMove ==
    \E p \in Points :
        LET renderer == app.keyboardRenderer
            i == getKeyAtPosition(renderer, p[1], p[2])
            key == IF i = 0 THEN Null
                   ELSE [t |-> "key", index |-> i, id |-> KeyId(renderer.keys[i]),
                         current |-> TRUE]
            hoveredKey == env.hoveredKey
            left == IF hoveredKey.t # "null" /\ StateOf(renderer, hoveredKey.id) = "hover"
                    THEN SetState(renderer, hoveredKey.id, "untested")
                    ELSE renderer
            entered == IF key.t # "null" /\ StateOf(left, key.id) = "untested"
                       THEN SetState(left, key.id, "hover")
                       ELSE left
        IN /\ key # hoveredKey
           /\ app' = [app EXCEPT !.keyboardRenderer = entered]
           /\ env' = [env EXCEPT !.hoveredKey = key]
           /\ UNCHANGED <<parser, call, ret, inv, last, slots>>

\* the mouseleave listener
MouseLeave ==
    /\ env.hoveredKey.t # "null"
    /\ StateOf(app.keyboardRenderer, env.hoveredKey.id) = "hover"
    /\ app' = [app EXCEPT !.keyboardRenderer = SetState(@, env.hoveredKey.id, "untested")]
    /\ env' = [env EXCEPT !.hoveredKey = Null]
    /\ UNCHANGED <<parser, call, ret, inv, last, slots>>

\* the click listener of the canvas
Click ==
    \E p \in Points :
        LET i == getKeyAtPosition(app.keyboardRenderer, p[1], p[2])
        IN /\ i # 0
           /\ Len(env.timers) < MaxTimers
           /\ app' = testKey(app, i)
           /\ env' = Pressed(env, app.keyboardRenderer, i)
           /\ UNCHANGED <<parser, call, ret, inv, last, slots>>

\* mapBrowserKeyToFirmwareKey(keyCode), -1 standing for null
mapBrowserKeyToFirmwareKey(keyCode) ==
    CASE keyCode = "Escape" -> 0
      [] keyCode = "Digit1" -> 1
      [] OTHER -> -1

\* the keydown listener: handleRealKeyPress(e), simulateKeyPress(keyId)
KeyDown ==
    \E code \in {"Escape", "F13"} :
        LET keyId == mapBrowserKeyToFirmwareKey(code)
            i == FindKey(app.keyboardRenderer, keyId)
        IN /\ app.currentFirmware # Null
           /\ keyId # -1
           /\ i # 0
           /\ Len(env.timers) < MaxTimers
           /\ app' = testKey(app, i)
           /\ env' = Pressed(env, app.keyboardRenderer, i)
           /\ UNCHANGED <<parser, call, ret, inv, last, slots>>

\* the callback of setTimeout in testKey, then onKeyTested; the notice is
\* written without the emoji that opens it in line 372
TimerFires ==
    /\ env.timers # <<>>
    /\ LET renderer == SetState(app.keyboardRenderer, Head(env.timers), "tested")
           stats == getTestStats(renderer)
       IN app' = [updateStats([app EXCEPT !.keyboardRenderer = renderer])
                     EXCEPT !.testLog =
                         IF stats.testedKeys = stats.totalKeys /\ stats.totalKeys > 0
                         THEN <<LogEntry("All keys tested! Test complete.", "success")>>
                         ELSE <<>>]
    /\ env' = [env EXCEPT !.timers = Tail(@)]
    /\ UNCHANGED <<parser, call, ret, inv, last, slots>>

\* the renderer after resetTest()
resetTest(renderer) ==
    [renderer EXCEPT !.keyStates =
        [i \in DOMAIN @ |->
            IF \E k \in 1..Len(renderer.keys) : KeyId(renderer.keys[k]) = i
            THEN "untested" ELSE @[i]]]

\* the reset button: resetTest() of the application with the testReset listener
ResetTest ==
    /\ app' = [updateStats([app EXCEPT !.keyboardRenderer = resetTest(@)])
                  EXCEPT !.testLog =
                      <<LogEntry("Test reset - all keys marked as untested", "info"),
                        LogEntry("Test reset", "info")>>]
    /\ env' = [env EXCEPT !.clicked = {}, !.afterReset = TRUE]
    /\ UNCHANGED <<parser, call, ret, inv, last, slots>>

\* the export button: exportResults() of the application
ExportResults ==
    /\ app' = [app EXCEPT !.testLog =
                  IF app.currentFirmware = Null
                  THEN <<LogEntry("No test data to export", "error")>>
                  ELSE <<LogEntry("Test results exported", "success")>>]
    /\ UNCHANGED <<parser, call, ret, inv, last, slots, env>>

\* highlightKeys(keyIds), the renderer it leaves
RECURSIVE highlightKeys(_, _)
highlightKeys(renderer, keyIds) ==
    IF keyIds = <<>> THEN renderer
    ELSE LET i == FindKey(renderer, Head(keyIds))
             marked == IF i = 0 THEN renderer
                       ELSE SetState([renderer EXCEPT !.keys[i] =
                                         ("_originalState" :> StateOf(renderer, KeyId(@)))
                                             @@ @],
                                     KeyId(renderer.keys[i]), "hover")
         IN highlightKeys(marked, Tail(keyIds))

\* clearHighlights(), the renderer it leaves once the keys from place i on
\* are done
RECURSIVE clearHighlights(_, _)
clearHighlights(renderer, i) ==
    IF i > Len(renderer.keys) THEN renderer
    ELSE LET key == renderer.keys[i]
             cleared == IF "_originalState" \in DOMAIN key
                        THEN [SetState(renderer, KeyId(key), key["_originalState"])
                                 EXCEPT !.keys[i] =
                                     [f \in DOMAIN key \ {"_originalState"} |-> key[f]]]
                        ELSE renderer
         IN clearHighlights(cleared, i + 1)

\* the keys array of the renderer is the keys array of the current firmware
\* (line 592): what is written on a key is written on the firmware too
WithRenderer(a, renderer) ==
    IF a.currentFirmware = Null THEN [a EXCEPT !.keyboardRenderer = renderer]
    ELSE [a EXCEPT !.keyboardRenderer = renderer,
                   !.currentFirmware.keys = renderer.keys]

\* a call of highlightKeys
HighlightKeys ==
    \E keyIds \in {<<0, 5>>} :
        /\ app' = WithRenderer(app, highlightKeys(app.keyboardRenderer, keyIds))
        /\ app' # app
        /\ UNCHANGED <<parser, call, ret, inv, last, slots, env>>

\* a call of clearHighlights
ClearHighlights ==
    /\ app' = WithRenderer(app, clearHighlights(app.keyboardRenderer, 1))
    /\ app' # app
    /\ UNCHANGED <<parser, call, ret, inv, last, slots, env>>

\* a file chosen or dropped and loaded: handleFiles([file]), lines 150-166
LoadFile ==
    \E file \in TestFiles :
        LET outcome == AfterRead(file)
            called == [app EXCEPT !.testLog =
                          <<LogEntry("Processing 1 file(s)...", "info"),
                            LogEntry("Parsing firmware file: " \o file.name, "info")>>]
        IN /\ inv.pc \in {"idle", "handled"}
           /\ file.readable
           /\ outcome.ok
           /\ app' = Loaded(called, outcome.value)
           /\ env' = Replaced(env)
           /\ inv' = [pc |-> "handled", file |-> file, ok |-> TRUE]
           /\ UNCHANGED <<parser, call, ret, last, slots>>

NextTest ==
    \/ LoadFile
    \/ MouseMove
    \/ MouseLeave
    \/ Click
    \/ KeyDown
    \/ TimerFires
    \/ ResetTest
    \/ ExportResults

SpecTest == Init /\ [][NextTest]_vars

(***************************************************************************)
(* SpecHighlight: the key test of a keyboard whose keys are highlighted,   *)
(* as a tutorial or a guide does through highlightKeys and                 *)
(* clearHighlights, between the clicks, the timer firings, the resets and  *)
(* the loads.                                                              *)
(***************************************************************************)
NextHighlight ==
    \/ LoadFile
    \/ Click
    \/ TimerFires
    \/ ResetTest
    \/ HighlightKeys
    \/ ClearHighlights

SpecHighlight == Init /\ [][NextHighlight]_vars

(***************************************************************************)
(* Properties of coordinate-based synthesis.                               *)
(***************************************************************************)
\* the x coordinates of a layout array, and its gaps between neighbours
XSet(layoutArray) == {layoutArray[i].x : i \in 1..Len(layoutArray)}
Neighbours(X) == {p \in X \X X : p[1] < p[2] /\ ~ \E c \in X : p[1] < c /\ c < p[2]}
MaxGapOf(X) ==
    IF Neighbours(X) = {} THEN 0
    ELSE LET gaps == {p[2] - p[1] : p \in Neighbours(X)}
         IN CHOOSE g \in gaps : \A h \in gaps : h <= g
\* the upper sides of the largest gaps
BoundariesOf(X) == {p[2] : p \in {q \in Neighbours(X) : q[2] - q[1] = MaxGapOf(X)}}

SplitLayoutCall == call.fn = "generateKeysFromLayout" /\ call.isSplit
\* 1.5 units are 3 half units
WideGapCall == SplitLayoutCall /\ MaxGapOf(XSet(call.layoutArray)) > 3

\* every key from boundary b on is right and shifted by 50, the others are left
SplitAt(b) ==
    /\ Len(ret) = Len(call.layoutArray)
    /\ \A i \in 1..Len(ret) :
          IF call.layoutArray[i].x >= b
          THEN /\ ret[i].half = "right"
               /\ ret[i].x = (call.layoutArray[i].x * 50) \div 2 + 10 + 50
          ELSE /\ ret[i].half = "left"
               /\ ret[i].x = (call.layoutArray[i].x * 50) \div 2 + 10

\* C1: with isSplit and a largest gap between neighbouring sorted x
\* coordinates of more than 1.5 units, the boundary is the upper side of that
\* gap: keys with x >= boundary are right and offset by 50 pixels, the others
\* are left and not offset; for x in {0..5, 10..15} the boundary is 10.
C1_GapBoundary ==
    WideGapCall =>
        /\ \E b \in BoundariesOf(XSet(call.layoutArray)) : SplitAt(b)
        /\ XSet(call.layoutArray) = XSet(ExampleLayout) => SplitAt(2 * 10)

C1_Witness ==
    /\ WideGapCall
    /\ call.layoutArray = ShuffledLayout
    /\ \E i, j \in 1..Len(ret) : ret[i].half = "left" /\ ret[j].half = "right"

\* C2: with isSplit and no gap of more than 1.5 units between neighbouring
\* sorted x coordinates, no key is offset and every key is left.
C2_NoGapAllLeft ==
    (SplitLayoutCall /\ ~WideGapCall) =>
        \A i \in 1..Len(ret) :
            /\ ret[i].half = "left"
            /\ ret[i].x = (call.layoutArray[i].x * 50) \div 2 + 10

(***************************************************************************)
(* Properties of the key-count classifier and of flat-grid synthesis.      *)
(***************************************************************************)
\* the catalog entry the step function is to give for n
FamilyOf(n) ==
    IF n >= 36 /\ n <= 42 THEN KeyboardLayouts["split"]
    ELSE IF n <= 48 THEN KeyboardLayouts["ortho"]
    ELSE IF n >= 49 /\ n <= 61 THEN KeyboardLayouts["60"]
    ELSE IF n >= 62 /\ n <= 68 THEN KeyboardLayouts["65"]
    ELSE IF n >= 69 /\ n <= 84 THEN KeyboardLayouts["75"]
    ELSE IF n >= 85 /\ n <= 87 THEN KeyboardLayouts["tkl"]
    ELSE KeyboardLayouts["full"]

\* C3: detectLayoutByKeyCount(n) is the step function: [36,42] split, other
\* n <= 48 ortholinear, 49..61 60%, 62..68 65%, 69..84 75%, 85..87
\* tenkeyless, n >= 88 full.
C3_StepFunction ==
    call.fn = "detectLayoutByKeyCount" => ret = FamilyOf(call.keyCount)

C3_Witness ==
    /\ call.fn = "detectLayoutByKeyCount"
    /\ call.keyCount = 88
    /\ ret.name = "Full Size"

\* C4: generateKeyPositions(n) yields n keys with ids 0..n-1 in order, key i
\* at row i div cols and column i mod cols, at pixel (col*50+10, row*50+10),
\* both >= 0, in a 45x45 box.
C4_FlatGrid ==
    call.fn = "generateKeyPositions" =>
        /\ Len(ret) = call.keyCount
        /\ \A i \in 0..(call.keyCount - 1) :
              LET key == ret[i + 1]
                  cols == FamilyOf(call.keyCount).cols
              IN /\ key.id = i
                 /\ key.row = i \div cols
                 /\ key.col = i % cols
                 /\ key.x = key.col * 50 + 10
                 /\ key.y = key.row * 50 + 10
                 /\ key.x >= 0 /\ key.y >= 0
                 /\ key.width = 45 /\ key.height = 45

C4_Witness ==
    /\ call.fn = "generateKeyPositions"
    /\ call.keyCount = 62
    /\ ret[62].row = 3 /\ ret[62].col = 13

(***************************************************************************)
(* Properties of the split signal.                                         *)
(***************************************************************************)
SplitCall == call.fn = "detectSplitKeyboard"
HasField(config, f) == f \in DOMAIN config.v
\* the name the keyboard goes by, lower-cased
KeyboardNameOf(config) ==
    toLowerCase(
        IF HasField(config, "keyboard_name") /\ config.v["keyboard_name"].v # ""
        THEN config.v["keyboard_name"].v
        ELSE IF HasField(config, "keyboard") /\ config.v["keyboard"].v # ""
        THEN config.v["keyboard"].v
        ELSE IF HasField(config, "name") THEN config.v["name"].v ELSE "")

ExplicitFlag(config) ==
    /\ HasField(config, "split")
    /\ \/ config.v["split"] \in {Bool(TRUE)}
       \/ /\ config.v["split"].t = "obj"
          /\ "enabled" \in DOMAIN config.v["split"].v
          /\ config.v["split"].v["enabled"].v = TRUE
HandednessOrPin(config) ==
    /\ HasField(config, "split")
    /\ config.v["split"].t = "obj"
    /\ {"handedness", "soft_serial_pin"} \cap DOMAIN config.v["split"].v # {}
LayoutNameFragment(config) ==
    /\ HasField(config, "layout")
    /\ config.v["layout"].t = "str"
    /\ \E frag \in LayoutNameFragments :
          includes(toLowerCase(config.v["layout"].v), frag)
SubLayoutNamedSplit(config) ==
    /\ HasField(config, "layouts")
    /\ \E i \in DOMAIN config.v["layouts"].k :
          includes(toLowerCase(config.v["layouts"].k[i]), "split")
KeyboardNameFragment(config) ==
    \E frag \in KeyboardNameFragments : includes(KeyboardNameOf(config), frag)

\* C10: detectSplitKeyboard is true when split is true or split.enabled is
\* true whatever the names, true when there is no split field and the
\* keyboard name contains "corne", and false when none of the five signals
\* is present.
C10_SplitSignals ==
    SplitCall =>
        /\ ExplicitFlag(call.config) => ret = TRUE
        /\ (~HasField(call.config, "split")
               /\ includes(KeyboardNameOf(call.config), "corne")) => ret = TRUE
        /\ (~ExplicitFlag(call.config) /\ ~HandednessOrPin(call.config)
               /\ ~LayoutNameFragment(call.config) /\ ~SubLayoutNamedSplit(call.config)
               /\ ~KeyboardNameFragment(call.config)) => ret = FALSE

C10_Witness ==
    /\ SplitCall
    /\ ret = TRUE
    /\ ~HasField(call.config, "split")
    /\ ~HasField(call.config, "layout")
    /\ ~HasField(call.config, "layouts")
    /\ Get(call.config, "keyboard") = Str("Corne")

(***************************************************************************)
(* Properties of the models parseFirmware returns.                         *)
(***************************************************************************)
Returned == inv.pc = "returned"
CarriesHalf(key) == "half" \in DOMAIN key
SplitFlag(model) == "isSplit" \in DOMAIN model.metadata /\ model.metadata.isSplit

\* the Corne scenario but for the firmware type
CorneKeys ==
    /\ Len(inv.model.keys) = 42
    /\ \A i \in 1..Len(inv.model.keys) : CarriesHalf(inv.model.keys[i])
    /\ inv.model.layout = KeyboardLayouts["split"]

\* C5 as stated: {keyboard: "Corne", split: {enabled: true}} yields 42 keys,
\* each carrying half, layout family split and type Generic.
C5_CorneGeneric ==
    (Returned /\ inv.file = CorneFile) => (CorneKeys /\ inv.model.type = "Generic")

\* C5 amended: {keyboard: "Corne", split: {enabled: true}} yields 42 keys,
\* each carrying half, layout family split and type QMK, the keyboard field
\* being one of the QMK marks.
C5_CorneQmk ==
    (Returned /\ inv.file = CorneFile) => (CorneKeys /\ inv.model.type = "QMK")

C5_Witness ==
    /\ Returned
    /\ inv.file = CorneFile
    /\ inv.model.type = "QMK"
    /\ inv.model.keys[42].half = "right"

\* the keymap texts with one layer of 48 binding tokens and no split cue
Keymap48Returned == Returned /\ inv.file \in {Keymap48File, Keymap48PairsFile}

\* C6 as stated: one layer of 48 binding tokens and no split cue yields 48
\* flat-grid keys, none carrying half, and layout family ortholinear.
C6_Flat48 ==
    Keymap48Returned =>
        /\ Len(inv.model.keys) = 48
        /\ \A i \in 1..Len(inv.model.keys) :
              /\ ~CarriesHalf(inv.model.keys[i])
              /\ inv.model.keys[i].row = (i - 1) \div 12
              /\ inv.model.keys[i].col = (i - 1) % 12
        /\ inv.model.layout = KeyboardLayouts["ortho"]

\* C6 amended: one layer of 48 binding tokens and no split cue yields
\* split-grid keys, every key carrying half, with the split flag set and
\* layout family split, 48 being in the keymap extractor's range [30,50].
C6_Split48 ==
    Keymap48Returned =>
        /\ Len(inv.model.keys) > 0
        /\ \A i \in 1..Len(inv.model.keys) :
              /\ CarriesHalf(inv.model.keys[i])
              /\ inv.model.keys[i].half \in {"left", "right"}
        /\ SplitFlag(inv.model)
        /\ inv.model.layout = KeyboardLayouts["split"]

C6_Witness ==
    /\ Keymap48Returned
    /\ Len(inv.model.layers[1].keys) = 48
    /\ inv.model.layout.name = "Split"

\* C7: in every returned model the key ids are pairwise distinct and are
\* exactly 0..N-1, N being the number of keys, whatever the key source.
C7_DenseIds ==
    Returned =>
        /\ \A i \in 1..Len(inv.model.keys) : "id" \in DOMAIN inv.model.keys[i]
        /\ {inv.model.keys[i].id : i \in 1..Len(inv.model.keys)}
              = 0..(Len(inv.model.keys) - 1)

\* C8: in every returned model half is on every key if the split flag is
\* true and on no key if it is not.
C8_HalfIffSplit ==
    Returned =>
        IF SplitFlag(inv.model)
        THEN \A i \in 1..Len(inv.model.keys) : CarriesHalf(inv.model.keys[i])
        ELSE \A i \in 1..Len(inv.model.keys) : ~CarriesHalf(inv.model.keys[i])

ExtractKeysCall == call.fn = "extractKeys"

\* the coordinate arrays of the sub-layouts of config
SubLayoutArrays(config) ==
    LET layouts == Get(config, "layouts")
    IN IF layouts.t # "obj" THEN {}
       ELSE {Get(layouts.v[name], "layout").v :
                name \in {n \in DOMAIN layouts.v : Get(layouts.v[n], "layout").t = "arr"}}

MatrixOf(config) ==
    Get(Get(config, "matrix"), "rows").v * Get(Get(config, "matrix"), "cols").v

AllCarryHalf(keys) == \A i \in 1..Len(keys) : "half" \in DOMAIN keys[i]
NoneCarryHalf(keys) == \A i \in 1..Len(keys) : "half" \notin DOMAIN keys[i]

\* C11: extractKeys takes the keys from the first source present, in the order
\* explicit keys array, nested layout.keys, a sub-layout's coordinate array
\* (through coordinate synthesis), matrix rows x cols, and otherwise the default
\* of 61 flat keys or 42 split keys when the split signal is true
C11_FirstSource ==
    ExtractKeysCall =>
        LET config == call.config
            isSplit == detectSplitKeyboard(config)
        IN IF HasField(config, "keys") THEN ret = Get(config, "keys").v
           ELSE IF Get(Get(config, "layout"), "keys").t = "arr"
           THEN ret = Get(Get(config, "layout"), "keys").v
           ELSE IF SubLayoutArrays(config) # {}
           THEN \E layoutArray \in SubLayoutArrays(config) :
                    /\ Len(ret) = Len(layoutArray)
                    /\ \A i \in 1..Len(ret) : ret[i].y = Pixel(layoutArray[i].y)
           ELSE IF HasField(config, "matrix")
           THEN IF isSplit THEN Len(ret) > 0 /\ AllCarryHalf(ret)
                ELSE Len(ret) = MatrixOf(config) /\ NoneCarryHalf(ret)
           ELSE IF isSplit THEN Len(ret) = 42 /\ AllCarryHalf(ret)
                ELSE Len(ret) = 61 /\ NoneCarryHalf(ret)

\* a config holding a sub-layout array and a matrix, and neither kind of keys
C11_Witness ==
    /\ ExtractKeysCall
    /\ ~HasField(call.config, "keys")
    /\ Get(Get(call.config, "layout"), "keys").t # "arr"
    /\ SubLayoutArrays(call.config) # {}
    /\ HasField(call.config, "matrix")
    /\ Len(ret) = 2

\* a config whose first key source is its matrix
MatrixOnly(config) ==
    /\ ~HasField(config, "keys")
    /\ Get(Get(config, "layout"), "keys").t # "arr"
    /\ SubLayoutArrays(config) = {}
    /\ HasField(config, "matrix")

\* C12: a config with no keys, no layout.keys and no sub-layout array but a
\* matrix of r rows and c columns yields exactly r * c keys, whether the split
\* signal is false (flat grid) or true (split grid)
C12_MatrixCount ==
    (ExtractKeysCall /\ MatrixOnly(call.config)) => Len(ret) = MatrixOf(call.config)

(***************************************************************************)
(* Keys of a keymap text.                                                  *)
(***************************************************************************)
KeymapReturned == Returned /\ inv.file.content.kind = "keymap"

\* C13: for a keymap text in which a layer block is found, the number of keys
\* equals the number of binding tokens of the first layer, on the flat-grid
\* path and on the split-grid path alike
C13_KeysPerToken ==
    (KeymapReturned /\ Len(inv.model.layers) > 0) =>
        Len(inv.model.keys) = Len(inv.model.layers[1].keys)

(***************************************************************************)
(* The layout of a returned model.                                         *)
(***************************************************************************)
Catalog == {KeyboardLayouts[k] : k \in DOMAIN KeyboardLayouts}

\* C14: the layout of every returned model is one of the seven entries of the
\* catalog, also when the config itself carries a layout field
C14_LayoutInCatalog ==
    Returned => inv.model.layout \in Catalog

(***************************************************************************)
(* Errors.                                                                 *)
(***************************************************************************)
Settled == inv.pc \in {"returned", "thrown"}
FormatError ==
    inv.pc = "thrown" /\ inv.message = "Failed to parse firmware: " \o "Invalid JSON format"

\* C15: the structured-config extractor fails with its format error exactly
\* when the content is not syntactically valid; every valid document, whatever
\* its top-level value and whichever fields are absent, yields a model
C15_FormatErrorIffInvalid ==
    (Settled /\ inv.file.readable /\ inv.file.content.kind = "json") =>
        /\ FormatError <=> ~inv.file.content.valid
        /\ Returned <=> inv.file.content.valid

\* the error parseFirmware throws for file: that of the read, or that of the
\* extractor when the read succeeded
ParseErrorOf(file) ==
    "Failed to parse firmware: "
        \o (IF file.readable THEN Extract(file).message ELSE "Failed to read file")

ErrorEntries == SelectSeq(app.testLog, LAMBDA entry : entry.type = "error")

\* a failed invocation: one error carrying the cause, and no model
OneError ==
    /\ inv.pc = "thrown" =>
          /\ inv.message = ParseErrorOf(inv.file)
          /\ "model" \notin DOMAIN inv
          /\ ~inv.file.readable \/ ~Extract(inv.file).ok
    /\ (inv.pc = "handled" /\ ~inv.ok) =>
          ErrorEntries = <<LogEntry("Error loading firmware: " \o ParseErrorOf(inv.file),
                                    "error")>>

\* a failed invocation is neither read nor extracted again
NoRetry == inv.pc = "thrown" => (inv'.pc = "handled" /\ ~inv'.ok /\ inv'.file = inv.file)

\* only the load of a returned model changes the firmware and the renderer
KeepsLoaded ==
    (inv.pc = "returned" /\ inv'.pc = "handled")
        \/ /\ app'.currentFirmware = app.currentFirmware
           /\ app'.keyboardRenderer = app.keyboardRenderer
           /\ app'.firmwareInfo = app.firmwareInfo

\* C16: when the read or the extractor fails, parseFirmware ends with exactly
\* one error whose message carries the cause, returns no model, runs no
\* extractor after a failed read and retries nothing; the application then
\* keeps the firmware loaded before and the renderer state unchanged
C16_FailureKeepsState == []OneError /\ [][NoRetry /\ KeepsLoaded]_vars

\* a failed load after a successful one
C16_Witness ==
    /\ inv.pc = "handled"
    /\ ~inv.ok
    /\ app.currentFirmware # Null
    /\ Len(app.keyboardRenderer.keys) > 0
    /\ Len(ErrorEntries) = 1

(***************************************************************************)
(* Files no extractor is chosen for.                                       *)
(***************************************************************************)
KnownExtensions == {".json", ".keymap", ".c", ".h", ".hex", ".uf2"}

UnknownFile(file) == FileExtension(toLowerCase(file.name)) \notin KnownExtensions

\* C17: for a file whose lower-cased extension is none of .json, .keymap, .c,
\* .h, .hex, .uf2 parseFirmware runs no extractor and returns a model of type
\* unknown with empty keys, encoders, trackballs, displays and layers, whose
\* layout is the default 60% family
C17_UnknownExtension ==
    (Settled /\ inv.file.readable /\ UnknownFile(inv.file)) =>
        /\ Returned
        /\ inv.model.type = "unknown"
        /\ inv.model.keys = <<>>
        /\ inv.model.encoders = <<>>
        /\ inv.model.trackballs = <<>>
        /\ inv.model.displays = <<>>
        /\ inv.model.layers = <<>>
        /\ inv.model.layout = KeyboardLayouts["60"]

C17_Witness ==
    /\ Returned
    /\ inv.file.name = "notes.txt"
    /\ UnknownFile(inv.file)
    /\ inv.model.layout.name = "60%"

(***************************************************************************)
(* Peripherals and layers of a returned model.                             *)
(***************************************************************************)
ConfigReturned ==
    Returned /\ inv.file.content.kind = "json" /\ inv.file.content.value.t = "obj"

\* the entries the config lists for a kind of component
ListedEncoders(config) ==
    IF HasField(config, "encoders") THEN config.v["encoders"].v ELSE <<>>
ListedTrackballs(config) ==
    IF HasField(config, "trackballs") THEN config.v["trackballs"].v
    ELSE IF HasField(config, "pointing_devices") THEN config.v["pointing_devices"].v
    ELSE <<>>
ListedDisplays(config) ==
    IF HasField(config, "displays") THEN config.v["displays"].v
    ELSE IF HasField(config, "oled") THEN <<config.v["oled"].v>>
    ELSE <<>>
ListedLayers(config) ==
    IF HasField(config, "layers") THEN config.v["layers"].v ELSE <<>>

\* entry i, counted from 1, is called kind i unless the config names it
DefaultNames(listed, extracted, kind) ==
    /\ Len(extracted) = Len(listed)
    /\ \A i \in 1..Len(listed) :
          extracted[i].name =
              IF "name" \in DOMAIN listed[i] THEN listed[i].name
              ELSE kind \o " " \o ToString(i)

\* C18: encoders, trackballs, displays and layers are empty when the config
\* has none, and otherwise the entry at 0-based position i without a name is
\* called "<Kind> <i+1>": "Encoder 1", "Trackball 1", "Display 1", "Layer 1"
C18_DefaultNames ==
    ConfigReturned =>
        LET config == inv.file.content.value
        IN /\ DefaultNames(ListedEncoders(config), inv.model.encoders, "Encoder")
           /\ DefaultNames(ListedTrackballs(config), inv.model.trackballs, "Trackball")
           /\ DefaultNames(ListedDisplays(config), inv.model.displays, "Display")
           /\ DefaultNames(ListedLayers(config), inv.model.layers, "Layer")

(***************************************************************************)
(* Layout inference over a draft model.                                    *)
(***************************************************************************)
DetectLayoutCall == call.fn = "detectLayout"

MetadataSplit(parsedData) ==
    "isSplit" \in DOMAIN parsedData.metadata /\ parsedData.metadata.isSplit = TRUE
SomeKeyHalf(parsedData) ==
    \E i \in 1..Len(parsedData.keys) :
        CarriesHalf(parsedData.keys[i]) /\ parsedData.keys[i].half # ""
ZmkSplitRange(parsedData) ==
    parsedData.type = "ZMK" /\ Len(parsedData.keys) \in 30..50

\* C19: detectLayout returns on the first check that applies: the split flag
\* of the metadata gives split; a key carrying half gives split; type ZMK with
\* 30 to 50 keys gives split; a non-empty key list gives the family of its
\* count; an empty one the default 60%
C19_DetectOrder ==
    DetectLayoutCall =>
        LET parsedData == call.parsedData
        IN ret = IF MetadataSplit(parsedData) THEN KeyboardLayouts["split"]
                 ELSE IF SomeKeyHalf(parsedData) THEN KeyboardLayouts["split"]
                 ELSE IF ZmkSplitRange(parsedData) THEN KeyboardLayouts["split"]
                 ELSE IF Len(parsedData.keys) > 0 THEN FamilyOf(Len(parsedData.keys))
                 ELSE KeyboardLayouts["60"]

\* 50 ZMK keys without flag or half: split, where the count alone gives 60%
C19_Witness ==
    /\ DetectLayoutCall
    /\ ~MetadataSplit(call.parsedData)
    /\ ~SomeKeyHalf(call.parsedData)
    /\ ZmkSplitRange(call.parsedData)
    /\ Len(call.parsedData.keys) = 50
    /\ ret = KeyboardLayouts["split"]

(***************************************************************************)
(* Split-grid synthesis.                                                   *)
(***************************************************************************)
\* a call of generateSplitKeyPositions without a coordinate layout
SplitGridCall ==
    call.fn = "generateSplitKeyPositions" /\ SubLayoutArrays(call.config) = {}

HalfKeys(keys, half) == {i \in 1..Len(keys) : keys[i].half = half}

\* 3 main rows of 6 columns and 3 thumb keys on a fourth row
ThreeBySixPlusThree(keys, I) ==
    /\ Cardinality({i \in I : keys[i].row < 3}) = 18
    /\ {<<keys[i].row, keys[i].col>> : i \in {j \in I : keys[j].row < 3}} = (0..2) \X (0..5)
    /\ Cardinality({i \in I : keys[i].row = 3}) = 3

\* C20: without a coordinate layout the split grid is, per half, 3 main rows of
\* 6 columns plus 3 thumb keys; the left ids precede the right ids, the ids are
\* 0..41 in order, every key carries half, the thumb keys sit 15 px below where
\* the 50 px row pitch places a fourth row, and a right key in column c is
\* 6*50+100 = 400 px to the right of a left key in column c
C20_SplitGrid ==
    SplitGridCall =>
        /\ Len(ret) = 42
        /\ \A i \in 1..Len(ret) :
              /\ ret[i].id = i - 1
              /\ CarriesHalf(ret[i])
              /\ ret[i].half = IF i <= 21 THEN "left" ELSE "right"
              /\ ret[i].y = ret[i].row * 50 + 10 + (IF ret[i].row = 3 THEN 15 ELSE 0)
        /\ ThreeBySixPlusThree(ret, HalfKeys(ret, "left"))
        /\ ThreeBySixPlusThree(ret, HalfKeys(ret, "right"))
        /\ \A l \in HalfKeys(ret, "left"), r \in HalfKeys(ret, "right") :
              ret[l].col = ret[r].col => ret[r].x = ret[l].x + 400

\* a call with a key count other than 42
C20_Witness ==
    /\ SplitGridCall
    /\ call.keyCount = 48
    /\ Len(ret) = 42
    /\ ret[19].y = 175
    /\ ret[22].x = 410

(***************************************************************************)
(* Invocations in flight together.                                         *)
(***************************************************************************)
Handled(i) == i \in 1..Len(slots) /\ slots[i].pc = "handled"

C30_LastSubmittedWins ==
    (/\ Len(slots) = 2
     /\ Handled(1) /\ Handled(2)
     /\ slots[1].ok /\ slots[2].ok
     /\ slots[2].overlaps) =>
        /\ app.currentFirmware = slots[2].model
        /\ app.keyboardRenderer.keys = slots[2].model.keys

(***************************************************************************)
(* Coordinate-based synthesis with several largest gaps.                   *)
(***************************************************************************)
TiedGapCall == WideGapCall /\ Cardinality(BoundariesOf(XSet(call.layoutArray))) >= 2

LeftmostBoundary(X) == CHOOSE b \in BoundariesOf(X) : \A c \in BoundariesOf(X) : b <= c

\* C26: with isSplit, when two or more gaps between neighbouring sorted x
\* coordinates equal the largest gap and exceed 1.5 units, the boundary is the
\* upper side of the leftmost of them, for every order of the layout array
C26_LeftmostTie ==
    TiedGapCall => SplitAt(LeftmostBoundary(XSet(call.layoutArray)))

\* the keys given right to left: x = 4, 2, 0 units, split at 2 units
C26_Witness ==
    /\ TiedGapCall
    /\ call.layoutArray = <<[x |-> 8, y |-> 0], [x |-> 4, y |-> 0], [x |-> 0, y |-> 0]>>
    /\ ret[2].half = "right"
    /\ ret[3].half = "left"

(***************************************************************************)
(* The order and the catalogs of the split signals.                        *)
(***************************************************************************)
\* split: false, or split: {enabled: false} without handedness or serial pin
ExplicitNegative(config) ==
    /\ HasField(config, "split")
    /\ \/ config.v["split"] = Bool(FALSE)
       \/ /\ config.v["split"].t = "obj"
          /\ "enabled" \in DOMAIN config.v["split"].v
          /\ config.v["split"].v["enabled"] = Bool(FALSE)
          /\ ~HandednessOrPin(config)

\* C24: for a config whose split field is explicitly negative, a keyboard name
\* containing a split fragment does not make detectSplitKeyboard true
C24_NegativeKept ==
    (/\ SplitCall
     /\ ExplicitNegative(call.config)
     /\ ~LayoutNameFragment(call.config)
     /\ ~SubLayoutNamedSplit(call.config)) => ret = FALSE

\* the fragments either signal knows
AllFragments == LayoutNameFragments \cup KeyboardNameFragments

LayoutNameOfConfig(config) ==
    IF HasField(config, "layout") /\ config.v["layout"].t = "str"
    THEN toLowerCase(config.v["layout"].v) ELSE ""

\* C25: one catalog of fragments serves the layout name and the keyboard
\* name: a fragment that makes a config split in the layout name does so in
\* the keyboard name, and conversely
C25_OneCatalog ==
    SplitCall =>
        \A frag \in AllFragments :
            (\/ includes(LayoutNameOfConfig(call.config), frag)
             \/ includes(KeyboardNameOf(call.config), frag)) => ret = TRUE

(***************************************************************************)
(* The family of a model without split signal and without layout field.    *)
(***************************************************************************)
\* the keys the config lists itself, as a keys array or as layout.keys
ExplicitKeys(config) ==
    IF Get(config, "keys").t = "arr" THEN Get(config, "keys").v
    ELSE IF Get(Get(config, "layout"), "keys").t = "arr"
    THEN Get(Get(config, "layout"), "keys").v
    ELSE <<>>

\* no split signal: detectSplitKeyboard is false and no listed key names a half
NoSplitSignal(config) ==
    /\ ~detectSplitKeyboard(config)
    /\ NoneCarryHalf(ExplicitKeys(config))

\* the keys of the config come from a sub-layout coordinate array
FromSubLayoutArray(config) ==
    /\ ~HasField(config, "keys")
    /\ Get(Get(config, "layout"), "keys").t # "arr"
    /\ SubLayoutArrays(config) # {}

\* C27: a structured config with no split signal and no layout field gets the
\* family split only when its key count is in 36..42, and when its keys come
\* from a sub-layout coordinate array its family is
\* detectLayoutByKeyCount(count)
C27_FamilyByCount ==
    (/\ ConfigReturned
     /\ NoSplitSignal(inv.file.content.value)
     /\ ~HasField(inv.file.content.value, "layout")) =>
        LET count == Len(inv.model.keys)
        IN /\ inv.model.layout = KeyboardLayouts["split"] => count \in 36..42
           /\ FromSubLayoutArray(inv.file.content.value) =>
                  inv.model.layout = detectLayoutByKeyCount(count)

(***************************************************************************)
(* The key test.                                                           *)
(***************************************************************************)
\* a file has been loaded and nothing was loaded after it
LoadedFile == inv.pc = "handled" /\ inv.ok

\* C22: no operation of the renderer adds, removes or changes a field of a
\* key: whatever was clicked, fired, reset, highlighted or cleared since the
\* load, the keys of the renderer, which are the keys of the current
\* firmware, are the keys the parser returned for the file
C22_KeySpecsFrozen ==
    LoadedFile =>
        /\ app.keyboardRenderer.keys = AfterRead(inv.file).value.keys
        /\ app.currentFirmware.keys = AfterRead(inv.file).value.keys

\* the keys the test counts as tested
TestedKeys ==
    {i \in 1..Len(app.keyboardRenderer.keys) :
        StateOf(app.keyboardRenderer, KeyId(app.keyboardRenderer.keys[i])) = "tested"}

\* testKey was called on the key at place i, or on a key of the same id,
\* since the last resetTest
ClickedSinceReset(i) ==
    \E j \in env.clicked :
        KeyId(app.keyboardRenderer.keys[j]) = KeyId(app.keyboardRenderer.keys[i])

\* C28: after resetTest a key is tested only if testKey was called on it
\* after that reset; a click before the reset whose timer fires after it
\* does not mark the key tested
C28_TestedAfterReset ==
    env.afterReset => \A i \in TestedKeys : ClickedSinceReset(i)

\* C29: in every reachable state getTestStats reports a number of tested keys
\* between 0 and the number of keys
C29_TestedWithinTotal ==
    /\ getTestStats(app.keyboardRenderer).testedKeys >= 0
    /\ getTestStats(app.keyboardRenderer).testedKeys
           <= getTestStats(app.keyboardRenderer).totalKeys

\* every key of the loaded model, of one key or more, has been clicked since
\* the load, and no reset happened since
AllClicked ==
    /\ LoadedFile
    /\ Len(app.keyboardRenderer.keys) >= 1
    /\ ~env.afterReset
    /\ env.clicked = 1..Len(app.keyboardRenderer.keys)

\* the last pending press timer fires
LastTimerFires == env.timers # <<>> /\ env'.timers = <<>>

\* C23: once a model of one key or more is loaded and every key has been
\* clicked with no reset and no reload, the firing of the last pending press
\* timer leaves the tested count equal to the key count and pushes the
\* completion notice
C23_Completion ==
    [][(AllClicked /\ LastTimerFires) =>
           /\ getTestStats(app'.keyboardRenderer).testedKeys
                  = getTestStats(app'.keyboardRenderer).totalKeys
           /\ \E k \in 1..Len(app'.testLog) :
                  app'.testLog[k].message = "All keys tested! Test complete."]_vars

=============================================================================
